---- MODULE Spec2Model ----
(***************************************************************************)
(* Model of k3s-envtest: the readiness poller (internal/webhook.Client,    *)
(* resources.WaitForCRDEstablished) and the bootstrap orchestrator         *)
(* (pkg/k3senv.K3sEnv) that drives it against a cluster.                   *)
(*                                                                         *)
(* Time is discrete; one unit is the floor of the poll interval (10ms).    *)
(* Computation takes no time: the clock advances only while the program    *)
(* is blocked (a request in flight, the select of the poll loop).          *)
(***************************************************************************)
EXTENDS Integers, Sequences, FiniteSets, TLC

\* ------------------------------------------------------------------ bounds
\* targets of one wait, and its poll interval, ready timeout and call timeout
\* in ticks: a request may outlast one poll interval and leave room for two
\* more probes before the deadline
MaxTargets == 2
MaxPollInterval == 2
MaxReadyTimeout == 5
MaxCallTimeout == 3
\* webhooks of one configuration, CRDs of one filter call, and applications
\* of a patch function to one object
MaxWebhooks == 2
MaxCRDs == 2
MaxPatches == 2
\* calls of Start on one K3sEnv, and teardown tasks its user registers
MaxStarts == 2
MaxTeardownTasks == 2
\* calls of Stop on one K3sEnv
MaxStops == 2
\* elements of an array a query gives
MaxItems == 2

VARIABLES
    now,      \* the clock
    ctx,      \* the caller's context: "active" | "canceled"
    cluster,  \* the cluster's objects: CRDs and webhook configurations
    wait,     \* the wait in progress (WaitForEndpoints, waitForCRDsEstablished)
    poll,     \* wait.PollUntilContextTimeout for wait.targets[wait.idx]
    call,     \* the request of the poll condition (Client.Call, cli.Get)
    hist,     \* history of the wait, for stating properties
    env,      \* the K3sEnv: its fields, and the position of the API call running
    log,      \* cluster operations and waits of the InstallWebhooks running
    obj,      \* the objects the patch and extract functions are applied to
    machine   \* the machine: containers running, directories, bundles issued

pollVars == <<now, ctx, cluster, wait, poll, call, hist>>

vars == <<now, ctx, cluster, wait, poll, call, hist, env, log, obj, machine>>

\* ------------------------------------------------------------------- data
\* URLs as the orchestrator produces them: baseURL + path.
URLs == {"https://host.containers.internal:9443/validate",
         "https://host.containers.internal:9443/mutate",
         "https://host.containers.internal:9443"}

CRDNames == {"samples.a.example.com", "samples.b.example.com"}

\* url.Parse(u).Path for the URLs above.
urlPath(u) ==
    CASE u = "https://host.containers.internal:9443/validate" -> "/validate"
      [] u = "https://host.containers.internal:9443/mutate" -> "/mutate"
      [] OTHER -> ""

\* path := parsedURL.Path; if path == "" { path = "/" }
endpointPath(u) == IF urlPath(u) = "" THEN "/" ELSE urlPath(u)

\* the name an error of the wait carries for a target
targetName(kind, t) == IF kind = "webhook" THEN endpointPath(t) ELSE t

StatusCodes == {200, 304, 404, 500}

\* What Client.Call can get back: an HTTP response (its status, and whether
\* its body is a JSON AdmissionReview), or a transport failure.
Responses ==
    [kind : {"http"}, status : StatusCodes, json : BOOLEAN]
        \cup {[kind |-> "transport"]}

NoResp == [kind |-> "none"]
AbortedResp == [kind |-> "aborted"]

\* e.certData of a K3sEnv that has issued no bundle (nil); a bundle is known
\* by its number in the order of issuance
NoCertData == 0

\* e.certData.CACert: the PEM block of the bundle's CA certificate
CACert(certData) == IF certData = NoCertData THEN <<>> ELSE <<certData>>

\* (a client that verifies nothing)
buildTLSConfig_insecure(caCert) == [RootCAs |-> {}, InsecureSkipVerify |-> TRUE]

\* buildTLSConfig: trust the CA certificate given, and only without one
\* skip the verification
buildTLSConfig(caCert) ==
    IF Len(caCert) > 0
    THEN [RootCAs |-> {caCert[i] : i \in DOMAIN caCert}, InsecureSkipVerify |-> FALSE]
    ELSE [RootCAs |-> {}, InsecureSkipVerify |-> TRUE]

\* the configuration of a wait that makes no TLS connection of its own
NoTLS == [RootCAs |-> {}, InsecureSkipVerify |-> FALSE]

\* the CAs a server's certificate can chain to: one of the bundles issued on
\* this machine, or (0) a CA that was not issued here
ServerIssuers(issued) == 0..issued

\* c.httpClient.Do(req) against a server whose certificate chains to issuer:
\* the handshake fails (a transport error) unless the certificate verifies
\* against RootCAs or verification is skipped; the response is then the
\* server's, received over a connection to that certificate
Handshake(tls, issuer, resp) ==
    IF resp.kind # "http" THEN resp
    ELSE IF tls.InsecureSkipVerify \/ issuer \in tls.RootCAs
    THEN [kind |-> "http", status |-> resp.status, json |-> resp.json,
          issuer |-> issuer]
    ELSE [kind |-> "transport"]

\* What cli.Get of a CRD can get back.
GetResponses(crd) ==
    {[kind |-> "error"]}
        \cup (IF crd.exists
              THEN {[kind |-> "found", established |-> crd.established]}
              ELSE {[kind |-> "notfound"]})

\* (any CRD that was read counts as Established)
IsCRDEstablished_found(resp) == resp.kind = "found"

\* IsCRDEstablished
IsCRDEstablished(resp) == resp.kind = "found" /\ resp.established

NilErr == [kind |-> "nil"]
Pending == [kind |-> "pending"]
NotReadyErr(name, cause) == [kind |-> "not_ready", name |-> name, cause |-> cause]

CallErr(what) == [kind |-> "call", what |-> what]

\* (a Call that returns an empty review for a body it cannot decode)
Call_lenient(resp) ==
    IF resp.kind # "http"
    THEN [review |-> "nil", err |-> CallErr("failed to send request")]
    ELSE IF resp.status >= 500
    THEN [review |-> "nil", err |-> CallErr("webhook returned server error")]
    ELSE [review |-> "review", err |-> NilErr]

\* Client.Call, from the answer of c.httpClient.Do(req) on: the review and
\* the error it returns
Call(resp) ==
    IF resp.kind # "http"
    THEN [review |-> "nil", err |-> CallErr("failed to send request")]
    ELSE IF resp.status >= 500
    THEN [review |-> "nil", err |-> CallErr("webhook returned server error")]
    ELSE IF ~resp.json
    THEN [review |-> "nil", err |-> CallErr("failed to unmarshal AdmissionReview response")]
    ELSE [review |-> "review", err |-> NilErr]

\* Client.Call returns err == nil
CallOK(resp) == Call(resp).err = NilErr

\* (a deadline taken once for the whole list of targets)
EndpointDeadline_cumulative(wstart, pstart, timeout) == wstart + timeout

\* context.WithTimeout(ctx, timeout) inside PollUntilContextTimeout
EndpointDeadline(wstart, pstart, timeout) == pstart + timeout

\* (a poll context not derived from the caller's)
DeriveCtx_detached(parent) == "active"

\* the state a context derived from the caller's starts in
DeriveCtx(parent) == IF parent = "canceled" THEN "canceled" ELSE "active"

\* (the call timeout passed where the poll interval belongs)
TickPeriod_callTimeout(opts) == opts.CallTimeout

\* interval of the ticker PollUntilContextTimeout is given
TickPeriod(opts) == opts.PollInterval

\* (no timeout of its own for the request)
CallDeadline_none(cstart, timeout, outer) == outer

\* deadline of a request: context.WithTimeout(ctx, callOpts.Timeout) if
\* Timeout > 0, nested in the poll's context
CallDeadline(cstart, timeout, outer) ==
    IF timeout > 0 /\ cstart + timeout < outer THEN cstart + timeout ELSE outer

\* (a request that is not bound to the poll's context)
CallCtxDone_detached ==
    now >= call.start + wait.opts.CallTimeout

\* the context of the request in flight is done
CallCtxDone ==
    \/ poll.dctx # "active"
    \/ now >= CallDeadline(call.start, wait.opts.CallTimeout, poll.deadline)

IdlePoll == [start |-> 0, deadline |-> 0, dctx |-> "active", nextTick |-> 0,
             tickBuf |-> FALSE, attempts |-> 0]
IdleCall == [start |-> 0, resp |-> NoResp]
NewHist(c) == [waitStart |-> 0, slow |-> FALSE, only5xx |-> TRUE,
               cancelPc |-> IF c = "canceled" THEN "pre" ELSE "none",
               healthy |-> {}, probed |-> {}]

NoCRD == [exists |-> FALSE, established |-> FALSE, conversion |-> "none"]

\* -------------------------------------------------------------- manifests
\* A webhook configuration of the manifests, by its name and the URLs
\* ExtractWebhookURLs finds in it once patched (one per webhook entry).
MutatingConfigs ==
    {<<>>,
     <<[name |-> "mutating-cfg", urls |-> <<>>]>>,
     <<[name |-> "mutating-cfg",
        urls |-> <<"https://host.containers.internal:9443/mutate",
                   "https://host.containers.internal:9443">>]>>}

ValidatingConfigs ==
    {<<>>,
     <<[name |-> "validating-cfg",
        urls |-> <<"https://host.containers.internal:9443/validate">>]>>}

\* A CRD of the manifests: its name, spec.group and spec.names.kind ("" when
\* missing).
CRDManifest(n, group, kind) == [name |-> n, group |-> group, kind |-> kind]

\* A scheme, by the group/kinds of its known types and whether each supports
\* conversion between versions.
SchemeA == {[group |-> "a.example.com", kind |-> "Sample", convertible |-> TRUE,
             inconsistent |-> FALSE],
            [group |-> "b.example.com", kind |-> "Sample", convertible |-> FALSE,
             inconsistent |-> FALSE]}

SchemeAB == {[group |-> "a.example.com", kind |-> "Sample", convertible |-> TRUE,
              inconsistent |-> FALSE],
             [group |-> "b.example.com", kind |-> "Sample", convertible |-> TRUE,
              inconsistent |-> FALSE]}

\* a scheme with a type whose versions are registered inconsistently for
\* conversion (two hubs, or spokes without a hub): conversion.IsConvertible
\* returns an error for it
SchemeInconsistent ==
    {[group |-> "a.example.com", kind |-> "Sample", convertible |-> FALSE,
      inconsistent |-> TRUE],
     [group |-> "b.example.com", kind |-> "Sample", convertible |-> TRUE,
      inconsistent |-> FALSE]}

\* the CRDs of the manifests and the scheme they are installed with
CRDInputs ==
    {[scheme |-> SchemeA, crds |-> <<>>],
     [scheme |-> SchemeA,
      crds |-> <<CRDManifest("samples.a.example.com", "a.example.com", "Sample")>>],
     [scheme |-> SchemeA,
      crds |-> <<CRDManifest("samples.a.example.com", "", "Sample")>>],
     [scheme |-> SchemeA,
      crds |-> <<CRDManifest("samples.a.example.com", "a.example.com", "Sample"),
                 CRDManifest("samples.b.example.com", "b.example.com", "Sample")>>],
     [scheme |-> SchemeAB,
      crds |-> <<CRDManifest("samples.a.example.com", "a.example.com", "Sample"),
                 CRDManifest("samples.b.example.com", "b.example.com", "Sample")>>]}

NoManifests == [crds |-> <<>>, mutating |-> <<>>, validating |-> <<>>]

\* extractNames
RECURSIVE extractNames(_)
extractNames(objs) ==
    IF objs = <<>> THEN <<>> ELSE <<Head(objs).name>> \o extractNames(Tail(objs))

\* (every group/kind of the scheme, convertible or not)
AllConvertibleTypes_all(scheme) == {[group |-> t.group, kind |-> t.kind] : t \in scheme}

\* ok, err := conversion.IsConvertible(scheme, obj)
IsConvertible(t) == [ok |-> t.convertible /\ ~t.inconsistent, err |-> t.inconsistent]

\* AllConvertibleTypes: the group/kinds of the types of the scheme for which
\* IsConvertible returns true and no error
AllConvertibleTypes(scheme) ==
    {[group |-> t.group, kind |-> t.kind] :
        t \in {x \in scheme : IsConvertible(x).ok /\ ~IsConvertible(x).err}}

MissingFieldErr(name, field) == [kind |-> "missing_field", name |-> name, field |-> field]

\* (a CRD without group or kind is left out of the result)
FilterStep_skip(convertibles, crd, rest) ==
    IF crd.group = "" \/ crd.kind = "" THEN rest
    ELSE IF rest.err # NilErr THEN rest
    ELSE IF [group |-> crd.group, kind |-> crd.kind] \in convertibles
    THEN [err |-> NilErr, crds |-> <<crd>> \o rest.crds]
    ELSE rest

\* one turn of the loop of FilterConvertibleCRDs, given the result of the
\* turns after it: a missing group, then a missing kind, is an error naming
\* the CRD; a CRD is appended when its group/kind is convertible
FilterStep(convertibles, crd, rest) ==
    IF crd.group = "" THEN [err |-> MissingFieldErr(crd.name, "spec.group"), crds |-> <<>>]
    ELSE IF crd.kind = ""
    THEN [err |-> MissingFieldErr(crd.name, "spec.names.kind"), crds |-> <<>>]
    ELSE IF rest.err # NilErr THEN rest
    ELSE IF [group |-> crd.group, kind |-> crd.kind] \in convertibles
    THEN [err |-> NilErr, crds |-> <<crd>> \o rest.crds]
    ELSE rest

\* FilterConvertibleCRDs: the first CRD without group or kind is an error,
\* else the CRDs whose group/kind is convertible, in the order of the input
RECURSIVE FilterConvertibleCRDs(_, _)
FilterConvertibleCRDs(scheme, crds) ==
    IF crds = <<>> THEN [err |-> NilErr, crds |-> <<>>]
    ELSE FilterStep(AllConvertibleTypes(scheme), Head(crds),
                    FilterConvertibleCRDs(scheme, Tail(crds)))

\* (readiness checked whatever the option says)
CheckReadiness_always(options) == TRUE

\* ptr.Deref(e.options.Webhook.CheckReadiness, false)
CheckReadiness(options) == options.CheckReadiness

\* ptr.Deref(e.options.Webhook.AutoInstall, false)
AutoInstall(options) == options.AutoInstall

\* no object under the patch functions
NoObj == [stage |-> "none"]

\* the environment of a wait called on its own, outside a K3sEnv
NoEnv == [api |-> "none"]

EmptyMachine == [containers |-> {}, dirs |-> {}, ids |-> 0, issued |-> 0]

IdleWait == [kind |-> "none", targets |-> <<>>, tls |-> NoTLS,
             opts |-> [PollInterval |-> 1, ReadyTimeout |-> 1, CallTimeout |-> 0],
             pc |-> "idle", idx |-> 1, err |-> Pending]

WebhookWaits ==
    [kind : {"webhook"},
     targets : UNION {[1..n -> URLs] : n \in 1..MaxTargets},
     opts : [PollInterval : 1..MaxPollInterval,
             ReadyTimeout : 1..MaxReadyTimeout,
             CallTimeout : 1..MaxCallTimeout],
     tls : {buildTLSConfig(CACert(1))},
     pc : {"loop"}, idx : {1}, err : {Pending}]

\* the CRD names are distinct (names of objects of one kind)
CRDWaits ==
    [kind : {"crd"},
     targets : {t \in UNION {[1..n -> CRDNames] : n \in 1..MaxTargets} :
                   \A i, j \in DOMAIN t : t[i] = t[j] => i = j},
     opts : [PollInterval : 1..MaxPollInterval,
             ReadyTimeout : 1..MaxReadyTimeout,
             CallTimeout : {0}],
     tls : {NoTLS},
     pc : {"loop"}, idx : {1}, err : {Pending}]

InitWait ==
    /\ now = 0
    /\ ctx \in {"active", "canceled"}
    /\ wait \in WebhookWaits \cup CRDWaits
    /\ cluster \in [crds : [CRDNames -> {NoCRD, [NoCRD EXCEPT !.exists = TRUE]}],
                    webhooks : {{}}]
    /\ wait.kind = "webhook" => \A n \in CRDNames : cluster.crds[n] = NoCRD
    /\ wait.kind = "crd" =>
           \A n \in CRDNames :
               cluster.crds[n].exists => \E i \in DOMAIN wait.targets : wait.targets[i] = n
    /\ poll = IdlePoll
    /\ call = IdleCall
    /\ hist = NewHist(ctx)
    /\ env = NoEnv
    /\ log = <<>>
    /\ obj = NoObj
    /\ machine = [EmptyMachine EXCEPT !.issued = 1]

\* ------------------------------------------------------- readiness poller
\* for _, webhookURL := range webhookURLs { ... wait.PollUntilContextTimeout(
\* for _, crdName := range crdNames { ... wait.PollUntilContextTimeout(
LoopTarget ==
    /\ wait.pc = "loop"
    /\ IF wait.idx > Len(wait.targets)
       THEN /\ wait' = [wait EXCEPT !.pc = "done", !.err = NilErr]
            /\ UNCHANGED poll
       ELSE /\ wait' = [wait EXCEPT !.pc = "cond"]
            /\ poll' = [start |-> now,
                        deadline |-> EndpointDeadline(hist.waitStart, now,
                                                      wait.opts.ReadyTimeout),
                        dctx |-> DeriveCtx(ctx),
                        nextTick |-> now + TickPeriod(wait.opts),
                        tickBuf |-> FALSE,
                        attempts |-> 0]
    /\ hist' = [hist EXCEPT !.slow = FALSE, !.only5xx = TRUE]
    /\ UNCHANGED <<now, ctx, cluster, call, env, log, obj, machine>>

\* the condition is invoked and sends its request
\* (c.Call(ctx, path, healthCheckReview, ...) or cli.Get(ctx, name, &crd))
CondStart ==
    /\ wait.pc = "cond"
    /\ wait' = [wait EXCEPT !.pc = "inflight"]
    /\ poll' = [poll EXCEPT !.attempts = @ + 1]
    /\ call' = [start |-> now, resp |-> NoResp]
    /\ hist' = [hist EXCEPT !.probed = @ \cup {wait.idx}]
    /\ UNCHANGED <<now, ctx, cluster, env, log, obj, machine>>

\* Client.Call returns and the condition of WaitForEndpoints returns
\* (err == nil, nil)
CallReturn(resp) ==
    /\ call' = [call EXCEPT !.resp = resp]
    /\ IF CallOK(resp)
       THEN /\ wait' = [wait EXCEPT !.pc = "loop", !.idx = @ + 1]
            /\ hist' = [hist EXCEPT !.healthy = @ \cup {wait.idx},
                                    !.slow = @ \/ now > call.start]
       ELSE /\ wait' = [wait EXCEPT !.pc = "select"]
            /\ hist' = [hist EXCEPT
                          !.slow = @ \/ now > call.start,
                          !.only5xx = @ /\ resp.kind = "http" /\ resp.status >= 500]
    /\ UNCHANGED <<now, ctx, cluster, poll, env, log, obj, machine>>

\* c.httpClient.Do(req) gets an answer
CallRespond ==
    /\ wait.kind = "webhook"
    /\ wait.pc = "inflight"
    /\ ~CallCtxDone
    /\ \E resp \in Responses, issuer \in ServerIssuers(machine.issued) :
          CallReturn(Handshake(wait.tls, issuer, resp))

\* the request's context is done: c.httpClient.Do(req) returns its error
CallAbort ==
    /\ wait.kind = "webhook"
    /\ wait.pc = "inflight"
    /\ CallCtxDone
    /\ CallReturn(AbortedResp)

\* (a condition that returns the error of a Get that found nothing)
GetFailed_notFoundToo(resp) == resp.kind \in {"error", "notfound"}

\* case err != nil, after case k8serr.IsNotFound(err)
GetFailed(resp) == resp.kind = "error"

\* cli.Get returns and the condition of the CRD wait returns:
\* not found: (false, nil); another error: (false, err); else
\* (IsCRDEstablished(&crd), nil)
GetReturn(resp) ==
    /\ call' = [call EXCEPT !.resp = resp]
    /\ hist' = [hist EXCEPT !.slow = @ \/ now > call.start,
                            !.healthy = IF IsCRDEstablished(resp)
                                        THEN @ \cup {wait.idx} ELSE @]
    /\ wait' =
         CASE GetFailed(resp) ->
                [wait EXCEPT !.pc = "done",
                             !.err = NotReadyErr(wait.targets[wait.idx], "get_failed")]
           [] resp.kind = "notfound" -> [wait EXCEPT !.pc = "select"]
           [] resp.kind = "aborted" ->
                [wait EXCEPT !.pc = "done",
                             !.err = NotReadyErr(wait.targets[wait.idx], poll.dctx)]
           [] OTHER ->
                IF IsCRDEstablished(resp)
                THEN [wait EXCEPT !.pc = "loop", !.idx = @ + 1]
                ELSE [wait EXCEPT !.pc = "select"]
    /\ UNCHANGED <<now, ctx, cluster, poll, env, log, obj, machine>>

GetRespond ==
    /\ wait.kind = "crd"
    /\ wait.pc = "inflight"
    /\ ~CallCtxDone
    /\ \E resp \in GetResponses(cluster.crds[wait.targets[wait.idx]]) : GetReturn(resp)

GetAbort ==
    /\ wait.kind = "crd"
    /\ wait.pc = "inflight"
    /\ CallCtxDone
    /\ GetReturn(AbortedResp)

\* (a loop that goes on to the next target when one does not become ready)
Select_continue ==
    /\ wait.pc = "select"
    /\ \/ /\ poll.dctx # "active"
          /\ wait' = [wait EXCEPT !.pc = "loop", !.idx = @ + 1]
          /\ UNCHANGED poll
       \/ /\ poll.dctx = "active"
          /\ poll.tickBuf
          /\ poll' = [poll EXCEPT !.tickBuf = FALSE]
          /\ wait' = [wait EXCEPT !.pc = "cond"]
    /\ UNCHANGED <<now, ctx, cluster, call, hist, env, log, obj, machine>>

\* select { case <-doneCh: return ctx.Err(); case <-timeCh: }
\* if err := ctx.Err(); err != nil { return err }
\* and, back in the caller: return fmt.Errorf("... %s not ready: %w", path, err)
Select ==
    /\ wait.pc = "select"
    /\ \/ /\ poll.dctx # "active"
          /\ wait' = [wait EXCEPT
                        !.pc = "done",
                        !.err = NotReadyErr(targetName(wait.kind, wait.targets[wait.idx]),
                                            poll.dctx)]
          /\ UNCHANGED poll
       \/ /\ poll.dctx = "active"
          /\ poll.tickBuf
          /\ poll' = [poll EXCEPT !.tickBuf = FALSE]
          /\ wait' = [wait EXCEPT !.pc = "cond"]
    /\ UNCHANGED <<now, ctx, cluster, call, hist, env, log, obj, machine>>

\* the program is blocked: a request in flight whose context is live, or the
\* select with neither channel ready
Blocked ==
    \/ wait.pc = "inflight" /\ ~CallCtxDone
    \/ wait.pc = "select" /\ poll.dctx = "active" /\ ~poll.tickBuf

\* the clock advances; the poll's context expires at its deadline and the
\* ticker delivers (or drops, when one is buffered) its tick
Tick ==
    /\ Blocked
    /\ now' = now + 1
    /\ poll' = [poll EXCEPT
                  !.dctx = IF @ = "active" /\ now + 1 >= poll.deadline
                           THEN "deadline" ELSE @,
                  !.tickBuf = @ \/ now + 1 = poll.nextTick,
                  !.nextTick = IF now + 1 = @ THEN @ + TickPeriod(wait.opts) ELSE @]
    /\ UNCHANGED <<ctx, cluster, wait, call, hist, env, log, obj, machine>>

\* a call of the program is running: an API call of the K3sEnv, or the wait
\* called on its own
Running == IF env.api = "none" THEN wait.pc # "done" ELSE env.api # "idle"

\* the caller cancels its context; contexts derived from it are cancelled
Cancel ==
    /\ ctx = "active"
    /\ Running
    /\ ctx' = "canceled"
    /\ poll' = [poll EXCEPT
                  !.dctx = IF wait.pc \in {"cond", "inflight", "select"} /\ @ = "active"
                           THEN "canceled" ELSE @]
    /\ hist' = [hist EXCEPT
                  !.cancelPc = IF wait.pc = "inflight" /\ CallCtxDone
                               THEN "aborting" ELSE wait.pc]
    /\ UNCHANGED <<now, cluster, wait, call, env, log, obj, machine>>

\* the cluster's establishing controller marks a submitted CRD Established
EstablishCRD ==
    /\ Running
    /\ \E n \in CRDNames :
          /\ cluster.crds[n].exists
          /\ ~cluster.crds[n].established
          /\ cluster' = [cluster EXCEPT !.crds[n].established = TRUE]
    /\ UNCHANGED <<now, ctx, wait, poll, call, hist, env, log, obj, machine>>

\* ------------------------------------------------- bootstrap orchestrator
WaitOptions == [PollInterval : 1..MaxPollInterval,
                ReadyTimeout : 1..MaxReadyTimeout,
                CallTimeout : 0..MaxCallTimeout]

\* Durations of the options are in milliseconds; the clock of the model
\* counts ticks of 10ms.
Ticks(ms) == ms \div 10

\* Certificate.Path: not set; the directory setupCertificates names after
\* the container (DefaultCertDirPrefix + container id); a directory of the
\* user's
NoPath == [dir |-> "", id |-> 0]
CertDir(containerID) == [dir |-> "generated", id |-> containerID]
CustomPath == [dir |-> "custom", id |-> 0]

\* the options given to New: poll intervals below and at the minimum, zero
\* and negative
RawOptions ==
    [CheckReadiness : BOOLEAN,
     AutoInstall : BOOLEAN,
     Scheme : {SchemeA, SchemeAB},
     Webhook : [PollInterval : {0, 5, 10}, ReadyTimeout : {20},
                HealthCheckTimeout : {10}],
     CRD : [PollInterval : {-10, 5, 10}, ReadyTimeout : {20}],
     Certificate : [Path : {NoPath}]]

InvalidOption(field, why) == [kind |-> "invalid_configuration", field |-> field, why |-> why]

\* (poll intervals are only required to be positive)
validate_noMinimum(opts) ==
    IF opts.Webhook.ReadyTimeout <= 0
    THEN InvalidOption("webhook ready timeout", "must be positive")
    ELSE IF opts.Webhook.HealthCheckTimeout <= 0
    THEN InvalidOption("webhook health check timeout", "must be positive")
    ELSE IF opts.CRD.ReadyTimeout <= 0
    THEN InvalidOption("CRD ready timeout", "must be positive")
    ELSE IF opts.Webhook.PollInterval <= 0
    THEN InvalidOption("webhook poll interval", "must be positive")
    ELSE IF opts.CRD.PollInterval <= 0
    THEN InvalidOption("CRD poll interval", "must be positive")
    ELSE NilErr

\* Options.validate, for the timeouts and the poll intervals: the timeouts
\* must be positive, the poll intervals positive and at least 10ms
validate(opts) ==
    IF opts.Webhook.ReadyTimeout <= 0
    THEN InvalidOption("webhook ready timeout", "must be positive")
    ELSE IF opts.Webhook.HealthCheckTimeout <= 0
    THEN InvalidOption("webhook health check timeout", "must be positive")
    ELSE IF opts.CRD.ReadyTimeout <= 0
    THEN InvalidOption("CRD ready timeout", "must be positive")
    ELSE IF opts.Webhook.PollInterval <= 0
    THEN InvalidOption("webhook poll interval", "must be positive")
    ELSE IF opts.Webhook.PollInterval < 10
    THEN InvalidOption("webhook poll interval", "too small")
    ELSE IF opts.CRD.PollInterval <= 0
    THEN InvalidOption("CRD poll interval", "must be positive")
    ELSE IF opts.CRD.PollInterval < 10
    THEN InvalidOption("CRD poll interval", "too small")
    ELSE NilErr

\* the options of a K3sEnv, as the waits take them: the webhook wait is
\* given PollInterval, ReadyTimeout and HealthCheckTimeout, the CRD wait
\* PollInterval and ReadyTimeout
Options(raw) ==
    [CheckReadiness |-> raw.CheckReadiness,
     AutoInstall |-> raw.AutoInstall,
     Scheme |-> raw.Scheme,
     Webhook |-> [PollInterval |-> Ticks(raw.Webhook.PollInterval),
                  ReadyTimeout |-> Ticks(raw.Webhook.ReadyTimeout),
                  CallTimeout |-> Ticks(raw.Webhook.HealthCheckTimeout)],
     CRD |-> [PollInterval |-> Ticks(raw.CRD.PollInterval),
              ReadyTimeout |-> Ticks(raw.CRD.ReadyTimeout),
              CallTimeout |-> 0],
     Certificate |-> raw.Certificate]

\* the options of the environments New returns: those validate accepts
EnvOptions == {Options(raw) : raw \in {r \in RawOptions : validate(r) = NilErr}}

\* e.container of a K3sEnv without container (nil); a container is known by
\* its id, its number in the order of creation
NoContainer == 0

\* what the last Stop did: the teardown tasks it ran (by their index in
\* e.teardownTasks) in the order it ran them, those that failed, and what
\* became of the termination of the container; what the call before the
\* first Stop had returned; and, over all the calls of Stop, their number
\* and how many times each task has been executed
NoStop == [called |-> FALSE, ran |-> <<>>, failed |-> {}, terminate |-> "none",
           prev |-> "none", prevErr |-> NilErr, calls |-> 0, execs |-> <<>>]

\* the K3sEnv New returns
NewEnv(options, objects) ==
    [api |-> "idle", pc |-> "idle", options |-> options, objects |-> objects,
     manifests |-> NoManifests, container |-> NoContainer, cfg |-> FALSE,
     cli |-> FALSE, certData |-> NoCertData, idx |-> 1, convertible |-> <<>>,
     started |-> FALSE, installed |-> FALSE, result |-> "none", iw |-> "none",
     err |-> NilErr, teardownTasks |-> <<>>, starts |-> 0, stop |-> NoStop]

Init ==
    /\ now = 0
    /\ ctx = "active"
    /\ cluster = [crds |-> [n \in CRDNames |-> NoCRD], webhooks |-> {}]
    /\ wait = IdleWait
    /\ poll = IdlePoll
    /\ call = IdleCall
    /\ hist = NewHist("active")
    /\ log = <<>>
    /\ obj = NoObj
    /\ machine = EmptyMachine
    /\ \E options \in EnvOptions :
         \E in \in CRDInputs, m \in MutatingConfigs, v \in ValidatingConfigs :
            /\ options.Scheme = in.scheme
            /\ env = NewEnv(options, [crds |-> in.crds, mutating |-> m, validating |-> v])

\* outcomes of a request to the cluster made with ctx: it fails when the
\* context is done, and may fail otherwise
OpOutcomes == IF ctx = "canceled" THEN {FALSE} ELSE BOOLEAN

\* the API call running returns res ("nil", "error"), or panics
Return(e, res) == [e EXCEPT !.api = "idle", !.pc = "idle", !.result = res]

\* an error as the environment returns it: what failed, the name of the
\* object it failed for ("" when it is about no object of the manifests),
\* and the error it wraps
Err(op, name, cause) == [kind |-> op, name |-> name, cause |-> cause]

\* (the error of a failed operation without the name of its object)
ResourceErr_anonymous(op, name, cause) == Err(op, "", cause)

\* fmt.Errorf("failed to ... %s: %w", obj.GetName(), err)
ResourceErr(op, name, cause) == Err(op, name, cause)

\* the error of a request the cluster did not serve
RequestErr == [kind |-> "request"]

\* the API call running returns the error err
Fail(e, err) == Return([e EXCEPT !.err = err], "error")

\* a step of Start: on success go on to pc (setting field f), else return
\* the error
StartStep(pc, f, next) ==
    /\ env.api = "Start"
    /\ env.pc = pc
    /\ \E ok \in OpOutcomes :
          env' = IF ok THEN [env EXCEPT ![f] = TRUE, !.pc = next]
                 ELSE Fail(env, Err(pc, "", RequestErr))
    /\ UNCHANGED <<now, ctx, cluster, wait, poll, call, hist, log, obj, machine>>

\* the test calls env.Start(ctx)
CallStart ==
    /\ env.api = "idle"
    /\ ~env.started
    /\ ~env.stop.called
    /\ env.result # "panic"
    /\ env' = [env EXCEPT !.api = "Start", !.pc = "startK3sContainer",
                          !.started = TRUE, !.result = "none", !.err = NilErr,
                          !.starts = @ + 1]
    /\ ctx' \in {"active", "canceled"}
    /\ UNCHANGED <<now, cluster, wait, poll, call, hist, log, obj, machine>>

\* container, err := k3s.Run(ctx, ...): on success a new container runs and
\* e.container is set to it
StartK3sContainer ==
    /\ env.api = "Start"
    /\ env.pc = "startK3sContainer"
    /\ \E ok \in OpOutcomes :
          IF ok
          THEN /\ env' = [env EXCEPT !.container = machine.ids + 1,
                                     !.pc = "setupKubeConfig"]
               /\ machine' = [machine EXCEPT !.ids = @ + 1,
                                       !.containers = @ \cup {machine.ids + 1}]
          ELSE /\ env' = Fail(env, Err("startK3sContainer", "", RequestErr))
               /\ UNCHANGED machine
    /\ UNCHANGED <<now, ctx, cluster, wait, poll, call, hist, log, obj>>

SetupKubeConfig == StartStep("setupKubeConfig", "cfg", "createKubernetesClients")

\* client.New makes no request and takes no context; e.cli is a client of
\* the cluster of the container just started, which has no object yet
CreateKubernetesClients ==
    /\ env.api = "Start"
    /\ env.pc = "createKubernetesClients"
    /\ \E ok \in BOOLEAN :
          IF ok
          THEN /\ env' = [env EXCEPT !.cli = TRUE, !.pc = "setupCertificates"]
               /\ cluster' = [crds |-> [n \in CRDNames |-> NoCRD], webhooks |-> {}]
          ELSE /\ env' = Fail(env, Err("createKubernetesClients", "", RequestErr))
               /\ UNCHANGED cluster
    /\ UNCHANGED <<now, ctx, wait, poll, call, hist, log, obj, machine>>

\* the teardown task setupCertificates registers for the directory it names
RemoveAllTask(cd) == [kind |-> "RemoveAll", dir |-> cd]

\* a teardown task of the user's
UserTask == [kind |-> "user", dir |-> NoPath]

\* what cert.New(path, ...) can do: fail before it has made the directory,
\* fail after, or issue a bundle in the directory
CertNewOutcomes == {"mkdir failed", "issue failed", "issued"}

\* setupCertificates: without a path in the options, name the directory
\* after the container, register its removal and keep the path in the
\* options; then issue a bundle there with cert.New, which takes no context
SetupCertificates ==
    /\ env.api = "Start"
    /\ env.pc = "setupCertificates"
    /\ LET generated == env.options.Certificate.Path = NoPath
           cd == CertDir(env.container)
           path == IF generated THEN cd ELSE env.options.Certificate.Path
           e == IF generated
                THEN [env EXCEPT !.teardownTasks = Append(@, RemoveAllTask(cd)),
                                 !.options.Certificate.Path = cd]
                ELSE env
       IN \E out \in CertNewOutcomes :
             /\ env' = IF out = "issued"
                       THEN [e EXCEPT !.certData = machine.issued + 1,
                                      !.pc = "prepareManifests"]
                       ELSE Fail(e, Err("setupCertificates", "", RequestErr))
             /\ machine' = [machine EXCEPT
                           !.dirs = IF out = "mkdir failed" THEN @ ELSE @ \cup {path},
                           !.issued = IF out = "issued" THEN @ + 1 ELSE @]
    /\ UNCHANGED <<now, ctx, cluster, wait, poll, call, hist, log, obj>>

\* e.manifests = Manifests{}; then the objects are loaded and converted
PrepareManifests ==
    /\ env.api = "Start"
    /\ env.pc = "prepareManifests"
    /\ \/ \E ok \in BOOLEAN :
          env' = IF ok THEN [env EXCEPT !.manifests = env.objects,
                                        !.pc = "installCRDs", !.idx = 1]
                 ELSE Fail([env EXCEPT !.manifests = NoManifests],
                           Err("prepareManifests", "", RequestErr))
       \/ env' = Fail([env EXCEPT !.manifests =
                            [NoManifests EXCEPT !.crds = env.objects.crds]],
                       Err("prepareManifests", "", RequestErr))
    /\ UNCHANGED <<now, ctx, cluster, wait, poll, call, hist, log, obj, machine>>

\* a wait begins: the state of WaitForEndpoints / waitForCRDsEstablished
\* on entry
BeginWait(kind, targets, opts, tls) ==
    /\ wait' = [kind |-> kind, targets |-> targets, opts |-> opts, tls |-> tls,
                pc |-> "loop", idx |-> 1, err |-> Pending]
    /\ hist' = [NewHist(ctx) EXCEPT !.waitStart = now]
    /\ poll' = IdlePoll
    /\ call' = IdleCall

\* the wait has returned to its caller
EndWait ==
    /\ wait' = IdleWait
    /\ hist' = NewHist("active")
    /\ poll' = IdlePoll
    /\ call' = IdleCall

\* installCRDsIfNeeded: nothing to do without CRDs; installCRDs creates each
\* CRD (an AlreadyExists answer is not an error), then
\* waitForCRDsEstablished(ctx, extractNames(crds))
InstallCRDs ==
    /\ env.api = "Start"
    /\ env.pc = "installCRDs"
    /\ LET crds == env.manifests.crds IN
       IF Len(crds) = 0
       THEN /\ env' = [env EXCEPT !.pc = "autoInstall"]
            /\ UNCHANGED <<cluster, wait, poll, call, hist>>
       ELSE IF env.idx > Len(crds)
       THEN /\ BeginWait("crd", extractNames(crds), env.options.CRD, NoTLS)
            /\ env' = [env EXCEPT !.pc = "waitCRDs"]
            /\ UNCHANGED cluster
       ELSE \E ok \in OpOutcomes :
               IF ok
               THEN /\ cluster' = [cluster EXCEPT !.crds[crds[env.idx].name].exists = TRUE]
                    /\ env' = [env EXCEPT !.idx = @ + 1]
                    /\ UNCHANGED <<wait, poll, call, hist>>
               ELSE /\ env' = Fail(env, ResourceErr("create CRD", crds[env.idx].name,
                                                     RequestErr))
                    /\ UNCHANGED <<cluster, wait, poll, call, hist>>
    /\ UNCHANGED <<now, ctx, log, obj, machine>>

\* (the error of waitForCRDsEstablished is dropped)
WaitCRDsReturn_ignoreError ==
    /\ env.api = "Start"
    /\ env.pc = "waitCRDs"
    /\ wait.pc = "done"
    /\ env' = [env EXCEPT !.pc = "autoInstall"]
    /\ EndWait
    /\ UNCHANGED <<now, ctx, cluster, log, obj, machine>>

\* waitForCRDsEstablished returns to installCRDsIfNeeded
WaitCRDsReturn ==
    /\ env.api = "Start"
    /\ env.pc = "waitCRDs"
    /\ wait.pc = "done"
    /\ env' = IF wait.err = NilErr THEN [env EXCEPT !.pc = "autoInstall"]
              ELSE Fail(env, ResourceErr("CRD not established", wait.err.name, wait.err))
    /\ EndWait
    /\ UNCHANGED <<now, ctx, cluster, log, obj, machine>>

\* if ptr.Deref(e.options.Webhook.AutoInstall, false) { e.InstallWebhooks(ctx) }
AutoInstallWebhooks ==
    /\ env.api = "Start"
    /\ env.pc = "autoInstall"
    /\ IF AutoInstall(env.options)
       THEN /\ env' = [env EXCEPT !.pc = "installWebhooks", !.iw = "running"]
            /\ log' = <<>>
       ELSE /\ env' = Return(env, "nil")
            /\ UNCHANGED log
    /\ UNCHANGED <<now, ctx, cluster, wait, poll, call, hist, obj, machine>>

\* the test calls env.InstallWebhooks(ctx)
CallInstallWebhooks ==
    /\ env.api = "idle"
    /\ ~env.installed
    /\ env.result # "panic"
    /\ env' = [env EXCEPT !.api = "InstallWebhooks", !.pc = "installWebhooks",
                          !.installed = TRUE, !.result = "none", !.iw = "running",
                          !.err = NilErr]
    /\ ctx' \in {"active", "canceled"}
    /\ log' = <<>>
    /\ UNCHANGED <<now, cluster, wait, poll, call, hist, obj, machine>>

\* InstallWebhooks returns res to the test or to Start, which returns it
ReturnIW(e, res) == Return([e EXCEPT !.iw = res], res)

\* webhook configurations in the order installWebhooks installs them
WebhookConfigs(manifests) == manifests.mutating \o manifests.validating

\* where installWebhooks goes after the configuration at index i
AfterWebhook(e, i) ==
    IF i < Len(WebhookConfigs(e.manifests))
    THEN [e EXCEPT !.pc = "installWebhook", !.idx = i + 1]
    ELSE [e EXCEPT !.pc = "filterCRDs"]

\* installWebhooks begins: caBundle := string(e.certData.CABundle()) panics
\* on a K3sEnv without certificate data
InstallWebhooksBegin ==
    /\ env.pc = "installWebhooks"
    /\ env' = IF env.certData = NoCertData THEN ReturnIW(env, "panic")
              ELSE AfterWebhook(env, 0)
    /\ UNCHANGED <<now, ctx, cluster, wait, poll, call, hist, log, obj, machine>>

\* (the loop of installWebhooks going on to the next configuration after an
\* error)
InstallWebhookFailed_continue(e) == AfterWebhook(e, e.idx)

\* if err := e.installWebhook(...); err != nil { return err }, and
\* InstallWebhooks returns it wrapped
InstallWebhookFailed(e) == ReturnIW(e, "error")

\* installWebhook for the configuration at env.idx: patch it, apply it with
\* cli.Patch, and unless readiness is not to be checked or the configuration
\* has no URL, call WaitForEndpoints on its URLs
InstallWebhook ==
    /\ env.pc = "installWebhook"
    /\ LET wh == WebhookConfigs(env.manifests)[env.idx] IN
       \E ok \in OpOutcomes :
          /\ log' = Append(log, [op |-> "apply", name |-> wh.name, ok |-> ok])
          /\ IF ~ok
             THEN /\ env' = InstallWebhookFailed(
                              [env EXCEPT !.err = ResourceErr("apply webhook", wh.name,
                                                              RequestErr)])
                  /\ UNCHANGED <<cluster, wait, poll, call, hist>>
             ELSE /\ cluster' = [cluster EXCEPT !.webhooks = @ \cup {wh.name}]
                  /\ IF ~CheckReadiness(env.options) \/ Len(wh.urls) = 0
                     THEN /\ env' = AfterWebhook(env, env.idx)
                          /\ UNCHANGED <<wait, poll, call, hist>>
                     ELSE /\ env' = [env EXCEPT !.pc = "waitEndpoints"]
                          /\ BeginWait("webhook", wh.urls, env.options.Webhook,
                                       buildTLSConfig(CACert(env.certData)))
    /\ UNCHANGED <<now, ctx, obj, machine>>

\* WaitForEndpoints returns to waitForWebhookEndpointsReady and installWebhook
WaitEndpointsReturn ==
    /\ env.pc = "waitEndpoints"
    /\ wait.pc = "done"
    /\ log' = Append(log, [op |-> "probe",
                           name |-> WebhookConfigs(env.manifests)[env.idx].name,
                           ok |-> wait.err = NilErr,
                           probes |-> Cardinality(hist.probed)])
    /\ env' = IF wait.err = NilErr THEN AfterWebhook(env, env.idx)
              ELSE InstallWebhookFailed(
                       [env EXCEPT !.err =
                           ResourceErr("webhook config endpoints not ready",
                                       WebhookConfigs(env.manifests)[env.idx].name,
                                       wait.err)])
    /\ EndWait
    /\ UNCHANGED <<now, ctx, cluster, obj, machine>>

\* crds, err := resources.FilterConvertibleCRDs(...); patch only if len(crds) > 0
FilterCRDs ==
    /\ env.pc = "filterCRDs"
    /\ LET r == FilterConvertibleCRDs(env.options.Scheme, env.manifests.crds) IN
       /\ log' = Append(log, [op |-> "filter", name |-> "", ok |-> r.err = NilErr])
       /\ env' = IF r.err # NilErr
                 THEN ReturnIW([env EXCEPT !.err = Err("determine convertible CRDs",
                                                       r.err.name, r.err)], "error")
                 ELSE IF Len(r.crds) = 0 THEN ReturnIW(env, "nil")
                 ELSE [env EXCEPT !.pc = "patchCRD", !.idx = 1,
                                  !.convertible = extractNames(r.crds)]
    /\ UNCHANGED <<now, ctx, cluster, wait, poll, call, hist, obj, machine>>

\* where patchAndUpdateCRDConversions goes after the CRD at e.idx
AfterCRD(e) ==
    IF e.idx < Len(e.convertible) THEN [e EXCEPT !.idx = @ + 1]
    ELSE ReturnIW(e, "nil")

\* patchAndUpdateCRDConversions for the CRD at env.idx: cli.Get it, set
\* .spec.conversion on what was read, cli.Update it
PatchAndUpdateCRDConversion ==
    /\ env.pc = "patchCRD"
    /\ LET n == env.convertible[env.idx] IN
       \E got \in GetResponses(cluster.crds[n]), ok \in OpOutcomes :
          IF got.kind # "found" \/ ctx = "canceled"
          THEN /\ log' = Append(log, [op |-> "get", name |-> n, ok |-> FALSE])
               /\ env' = ReturnIW([env EXCEPT !.err = ResourceErr("get CRD", n,
                                                                  RequestErr)], "error")
               /\ UNCHANGED cluster
          ELSE /\ log' = Append(log, [op |-> "update", name |-> n, ok |-> ok])
               /\ IF ok
                  THEN /\ cluster' = [cluster EXCEPT !.crds[n].conversion = "webhook"]
                       /\ env' = AfterCRD(env)
                  ELSE /\ env' = ReturnIW([env EXCEPT !.err =
                                               ResourceErr("update CRD", n, RequestErr)],
                                           "error")
                       /\ UNCHANGED cluster
    /\ UNCHANGED <<now, ctx, wait, poll, call, hist, obj, machine>>

Next ==
    \/ CallStart
    \/ StartK3sContainer
    \/ SetupKubeConfig
    \/ CreateKubernetesClients
    \/ SetupCertificates
    \/ PrepareManifests
    \/ InstallCRDs
    \/ WaitCRDsReturn
    \/ AutoInstallWebhooks
    \/ CallInstallWebhooks
    \/ InstallWebhooksBegin
    \/ InstallWebhook
    \/ WaitEndpointsReturn
    \/ FilterCRDs
    \/ PatchAndUpdateCRDConversion
    \/ LoopTarget
    \/ CondStart
    \/ CallRespond
    \/ CallAbort
    \/ GetRespond
    \/ GetAbort
    \/ Select
    \/ Tick
    \/ Cancel
    \/ EstablishCRD

Spec == Init /\ [][Next]_vars

NextWait ==
    \/ LoopTarget
    \/ CondStart
    \/ CallRespond
    \/ CallAbort
    \/ GetRespond
    \/ GetAbort
    \/ Select
    \/ Tick
    \/ Cancel
    \/ EstablishCRD

SpecWait == InitWait /\ [][NextWait]_vars

\* the goroutine of the wait is scheduled and time passes: a step that stays
\* possible is eventually taken
SpecWaitFair == SpecWait /\ WF_vars(NextWait)

\* ------------------------------------------------- lifecycle of a K3sEnv
\* the test calls env.Start(ctx) on an environment it has started before
\* (Start has no guard against it)
Restart ==
    /\ env.api = "idle"
    /\ env.started
    /\ env.starts < MaxStarts
    /\ ~env.stop.called
    /\ env.result # "panic"
    /\ env' = [env EXCEPT !.api = "Start", !.pc = "startK3sContainer",
                          !.result = "none", !.err = NilErr, !.starts = @ + 1]
    /\ ctx' \in {"active", "canceled"}
    /\ UNCHANGED <<now, cluster, wait, poll, call, hist, log, obj, machine>>

\* the test calls env.AddTeardown(task)
AddTeardown ==
    /\ env.api = "idle"
    /\ ~env.stop.called
    /\ env.result # "panic"
    /\ Cardinality({i \in DOMAIN env.teardownTasks :
                        env.teardownTasks[i] = UserTask}) < MaxTeardownTasks
    /\ env' = [env EXCEPT !.teardownTasks = Append(@, UserTask)]
    /\ UNCHANGED <<now, ctx, cluster, wait, poll, call, hist, log, obj, machine>>

\* (the tasks in the order of their registration)
StopOrder_forward(n) == [k \in 1..n |-> k]

\* for i := len(e.teardownTasks) - 1; i >= 0; i-- : the indices of the tasks
\* in the order the loop of Stop takes them
StopOrder(n) == [k \in 1..n |-> n - k + 1]

\* (a loop that returns at the first task that fails)
TasksRun_untilFailure(order, fails) ==
    IF \E k \in DOMAIN order : order[k] \in fails
    THEN SubSeq(order, 1, CHOOSE k \in DOMAIN order :
                             /\ order[k] \in fails
                             /\ \A j \in 1..(k - 1) : order[j] \notin fails)
    ELSE order

\* the tasks the loop of Stop runs: a failure is appended to errs and the
\* loop goes on
TasksRun(order, fails) == order

\* (a Stop that terminates e.container without looking at it)
HasContainer_unchecked(e) == TRUE

\* if e.container != nil
HasContainer(e) == e.container # NoContainer

\* (a removal that leaves the directory)
RemoveAll_keep(dirs, removed) == dirs

\* os.RemoveAll(cd) of the teardown tasks that succeed
RemoveAll(dirs, removed) == dirs \ removed

TeardownErr(i) == [kind |-> "teardown task failed", task |-> i]
TerminateErr == [kind |-> "failed to terminate container", task |-> 0]

\* errors.Join(errs...)
Join(errs) == [kind |-> "join", errs |-> errs]

\* the errs of the loop of Stop: one for each task run that failed, in the
\* order they ran
TeardownErrs(ran, fails) ==
    LET F == SelectSeq(ran, LAMBDA i : i \in fails)
    IN [k \in DOMAIN F |-> TeardownErr(F[k])]

\* the executions of each of the n tasks of e.teardownTasks, after a Stop
\* that ran the tasks in ran: Stop leaves e.teardownTasks as it is
Executions(execs, n, ran) ==
    [i \in 1..n |-> (IF i \in DOMAIN execs THEN execs[i] ELSE 0)
                      + Cardinality({k \in DOMAIN ran : ran[k] = i})]

\* Stop: the teardown tasks run (fails: those that return an error), then
\* the container, if there is one, is terminated (which can fail), and the
\* errors are returned joined
RunStop ==
    /\ \E fails \in SUBSET DOMAIN env.teardownTasks, terminated \in BOOLEAN :
          LET tasks == env.teardownTasks
              ran == TasksRun(StopOrder(Len(tasks)), fails)
              removed == {tasks[ran[k]].dir :
                            k \in {j \in DOMAIN ran :
                                      /\ tasks[ran[j]].kind = "RemoveAll"
                                      /\ ran[j] \notin fails}}
              terminate == IF ~HasContainer(env) THEN "none"
                           ELSE IF env.container = NoContainer THEN "panic"
                           ELSE IF terminated THEN "ok" ELSE "failed"
              errs == TeardownErrs(ran, fails)
                          \o (IF terminate = "failed" THEN <<TerminateErr>> ELSE <<>>)
              stop == [called |-> TRUE, ran |-> ran,
                       failed |-> {ran[k] : k \in DOMAIN ran} \cap fails,
                       terminate |-> terminate,
                       prev |-> IF env.stop.called THEN env.stop.prev ELSE env.result,
                       prevErr |-> IF env.stop.called THEN env.stop.prevErr ELSE env.err,
                       calls |-> env.stop.calls + 1,
                       execs |-> Executions(env.stop.execs, Len(tasks), ran)]
          IN /\ env' = [env EXCEPT
                          !.stop = stop,
                          !.result = IF terminate = "panic" THEN "panic"
                                     ELSE IF errs = <<>> THEN "nil" ELSE "error",
                          !.err = IF errs = <<>> THEN NilErr ELSE Join(errs)]
             /\ machine' = [machine EXCEPT
                              !.dirs = RemoveAll(@, removed),
                              !.containers = IF terminate = "ok"
                                             THEN @ \ {env.container} ELSE @]
    /\ UNCHANGED <<now, ctx, cluster, wait, poll, call, hist, log, obj>>

\* the test calls env.Stop(ctx)
Stop ==
    /\ env.api = "idle"
    /\ ~env.stop.called
    /\ env.result # "panic"
    /\ RunStop

\* the test calls env.Stop(ctx) on an environment it has stopped before
\* (Stop has no guard against it, and leaves e.teardownTasks and e.container
\* as they are)
StopAgain ==
    /\ env.api = "idle"
    /\ env.stop.called
    /\ env.stop.calls < MaxStops
    /\ env.result # "panic"
    /\ RunStop

\* an environment with one CRD and one webhook configuration, its
\* certificate path set by the user or not
InitLifecycle ==
    /\ now = 0
    /\ ctx = "active"
    /\ cluster = [crds |-> [n \in CRDNames |-> NoCRD], webhooks |-> {}]
    /\ wait = IdleWait
    /\ poll = IdlePoll
    /\ call = IdleCall
    /\ hist = NewHist("active")
    /\ log = <<>>
    /\ obj = NoObj
    /\ machine = EmptyMachine
    /\ \E options \in EnvOptions, path \in {NoPath, CustomPath} :
         \E in \in CRDInputs, v \in ValidatingConfigs :
            /\ options.Scheme = SchemeA
            /\ in.scheme = SchemeA
            /\ Len(in.crds) = 1
            /\ in.crds[1].group # ""
            /\ v # <<>>
            /\ env = NewEnv([options EXCEPT !.Certificate.Path = path],
                            [crds |-> in.crds, mutating |-> <<>>, validating |-> v])

NextLifecycle ==
    \/ CallStart
    \/ Restart
    \/ AddTeardown
    \/ Stop
    \/ StartK3sContainer
    \/ SetupKubeConfig
    \/ CreateKubernetesClients
    \/ SetupCertificates
    \/ PrepareManifests
    \/ InstallCRDs
    \/ WaitCRDsReturn
    \/ AutoInstallWebhooks
    \/ InstallWebhooksBegin
    \/ InstallWebhook
    \/ WaitEndpointsReturn
    \/ FilterCRDs
    \/ PatchAndUpdateCRDConversion
    \/ LoopTarget
    \/ CondStart
    \/ CallRespond
    \/ CallAbort
    \/ GetRespond
    \/ GetAbort
    \/ Select
    \/ Tick
    \/ Cancel
    \/ EstablishCRD

SpecLifecycle == InitLifecycle /\ [][NextLifecycle]_vars

\* the lifecycle of an environment whose test calls Stop more than once
NextStops ==
    \/ NextLifecycle
    \/ StopAgain

SpecStops == InitLifecycle /\ [][NextStops]_vars

\* ------------------------------------------------ strings and url.Parse
\* A string is a sequence of characters.  The characters: letters, a digit
\* (also a hex digit), the delimiters of a URL, '!' and '"' (what %22 decodes
\* to).
Letter == "a"
Letters == {Letter, "c", "o", "n", "v", "e", "r", "t"}
Digit == "2"
DQuote == "\""
Chars == Letters \cup {Digit, "/", ":", "?", "#", "%", "!", DQuote}

\* strings.Index, counted from 1; 0 when c is not in s
IndexOf(s, c) ==
    IF \E i \in 1..Len(s) : s[i] = c
    THEN CHOOSE i \in 1..Len(s) : s[i] = c /\ \A j \in 1..(i - 1) : s[j] # c
    ELSE 0

\* strings.LastIndex, counted from 1
LastIndexOf(s, c) ==
    IF \E i \in 1..Len(s) : s[i] = c
    THEN CHOOSE i \in 1..Len(s) : s[i] = c /\ \A j \in (i + 1)..Len(s) : s[j] # c
    ELSE 0

\* before, after, _ := strings.Cut(s, c)
CutBefore(s, c) == IF IndexOf(s, c) = 0 THEN s ELSE SubSeq(s, 1, IndexOf(s, c) - 1)
CutAfter(s, c) == IF IndexOf(s, c) = 0 THEN <<>> ELSE SubSeq(s, IndexOf(s, c) + 1, Len(s))

HasPrefix(s, pre) == Len(s) >= Len(pre) /\ SubSeq(s, 1, Len(pre)) = pre

\* getScheme: the scheme ends at the first ':' if only letters (and, after the
\* first character, digits) come before it; a ':' in front is an error; any
\* other character means there is no scheme
RECURSIVE getSchemeFrom(_, _)
getSchemeFrom(rawURL, i) ==
    IF i > Len(rawURL) THEN [err |-> FALSE, scheme |-> <<>>, rest |-> rawURL]
    ELSE IF rawURL[i] \in Letters THEN getSchemeFrom(rawURL, i + 1)
    ELSE IF rawURL[i] = Digit
         THEN IF i = 1 THEN [err |-> FALSE, scheme |-> <<>>, rest |-> rawURL]
              ELSE getSchemeFrom(rawURL, i + 1)
    ELSE IF rawURL[i] = ":"
         THEN IF i = 1 THEN [err |-> TRUE, scheme |-> <<>>, rest |-> <<>>]
              ELSE [err |-> FALSE, scheme |-> SubSeq(rawURL, 1, i - 1),
                    rest |-> SubSeq(rawURL, i + 1, Len(rawURL))]
    ELSE [err |-> FALSE, scheme |-> <<>>, rest |-> rawURL]

getScheme(rawURL) == getSchemeFrom(rawURL, 1)

\* validOptionalPort: empty, or ':' followed by digits only
validOptionalPort(port) ==
    \/ port = <<>>
    \/ port[1] = ":" /\ \A i \in 2..Len(port) : port[i] = Digit

\* parseHost fails for an invalid port and for a '%' in the host (an escape
\* of an ASCII character is not allowed there); every other character of
\* Chars that can be in an authority is allowed in a host
parseHostErr(host) ==
    \/ LastIndexOf(host, ":") # 0
         /\ ~validOptionalPort(SubSeq(host, LastIndexOf(host, ":"), Len(host)))
    \/ IndexOf(host, "%") # 0

\* unescape(s, encodePath): %22 becomes '"'; a '%' not followed by two hex
\* digits is an error
RECURSIVE unescapePath(_)
unescapePath(s) ==
    IF s = <<>> THEN [err |-> FALSE, v |-> <<>>]
    ELSE IF Head(s) = "%"
         THEN IF Len(s) >= 3 /\ s[2] = Digit /\ s[3] = Digit
              THEN LET r == unescapePath(SubSeq(s, 4, Len(s)))
                   IN [err |-> r.err, v |-> <<DQuote>> \o r.v]
              ELSE [err |-> TRUE, v |-> <<>>]
    ELSE LET r == unescapePath(Tail(s))
         IN [err |-> r.err, v |-> <<Head(s)>> \o r.v]

ParseError == [err |-> TRUE, Path |-> <<>>]

\* url.Parse, as far as its error and the Path of its result: the fragment
\* is cut off at the first '#' (and unescaped), then the scheme, the query at
\* the first '?', the authority after "//", and the path (unescaped)
Parse(rawURL) ==
    LET u == CutBefore(rawURL, "#")
        sch == getScheme(u)
        rest == CutBefore(sch.rest, "?")
    IN IF sch.err \/ unescapePath(CutAfter(rawURL, "#")).err THEN ParseError
       ELSE IF ~HasPrefix(rest, <<"/">>) /\ sch.scheme # <<>>
            THEN [err |-> FALSE, Path |-> <<>>]
       ELSE IF ~HasPrefix(rest, <<"/">>) /\ IndexOf(CutBefore(rest, "/"), ":") # 0
            THEN ParseError
       ELSE LET auth == HasPrefix(rest, <<"/", "/">>)
                         /\ (sch.scheme # <<>> \/ ~HasPrefix(rest, <<"/", "/", "/">>))
                authority == IF auth THEN CutBefore(SubSeq(rest, 3, Len(rest)), "/")
                             ELSE <<>>
                p == IF auth
                     THEN SubSeq(rest, 3 + Len(authority), Len(rest))
                     ELSE rest
            IN IF auth /\ parseHostErr(authority) THEN ParseError
               ELSE IF unescapePath(p).err THEN ParseError
               ELSE [err |-> FALSE, Path |-> unescapePath(p).v]

\* ---------------------------------------------------- internal/resources
\* A *string: nil, or a pointer to a string.
NilString == [set |-> FALSE, v |-> <<>>]
Ptr(s) == [set |-> TRUE, v |-> s]

\* A *ServiceReference: nil, or a reference with its optional Path.
NoService == [set |-> FALSE, Path |-> NilString]
ServiceReference(path) == [set |-> TRUE, Path |-> path]

WebhookClientConfig(service, url, caBundle) ==
    [Service |-> service, URL |-> url, CABundle |-> caBundle]

\* (no path at all when the entry has neither a service path nor a URL)
DefaultPath_empty == <<>>

\* path := "/"
DefaultPath == <<"/">>

\* (the path of an existing URL is preferred to the path of the service)
effectivePath_urlFirst(config) ==
    IF config.URL.set /\ ~Parse(config.URL.v).err THEN Parse(config.URL.v).Path
    ELSE IF config.Service.set /\ config.Service.Path.set THEN config.Service.Path.v
    ELSE DefaultPath

\* the path patchClientConfig appends to the base URL: the path of the
\* service, else the Path of the URL if it parses, else the default
effectivePath(config) ==
    IF config.Service.set /\ config.Service.Path.set THEN config.Service.Path.v
    ELSE IF config.URL.set /\ ~Parse(config.URL.v).err THEN Parse(config.URL.v).Path
    ELSE DefaultPath

\* (the service reference is kept)
patchClientConfig_keepService(config, baseURL, caBundle) ==
    [Service |-> config.Service,
     URL |-> Ptr(baseURL \o effectivePath(config)),
     CABundle |-> caBundle]

patchClientConfig(config, baseURL, caBundle) ==
    [Service |-> NoService,
     URL |-> Ptr(baseURL \o effectivePath(config)),
     CABundle |-> caBundle]

\* (a patch that builds its entries anew, under one name)
PatchMutatingWebhookConfiguration_rebuilt(webhooks, baseURL, caBundle) ==
    [i \in DOMAIN webhooks |->
        [Name |-> "sample.example.com",
         ClientConfig |-> patchClientConfig(webhooks[i].ClientConfig, baseURL, caBundle)]]

\* the webhooks of a configuration, each with its client config patched
PatchMutatingWebhookConfiguration(webhooks, baseURL, caBundle) ==
    [i \in DOMAIN webhooks |->
        [webhooks[i] EXCEPT
            !.ClientConfig = patchClientConfig(webhooks[i].ClientConfig, baseURL, caBundle)]]

PatchValidatingWebhookConfiguration(webhooks, baseURL, caBundle) ==
    [i \in DOMAIN webhooks |->
        [webhooks[i] EXCEPT
            !.ClientConfig = patchClientConfig(webhooks[i].ClientConfig, baseURL, caBundle)]]

\* (a URL that does not parse is returned as no URL, without an error)
urlFromClientConfig_lenient(config) ==
    LET urlStr == IF config.URL.set THEN config.URL.v ELSE <<>>
    IN IF urlStr = <<>> \/ Parse(urlStr).err THEN [err |-> FALSE, url |-> <<>>]
       ELSE [err |-> FALSE, url |-> urlStr]

\* urlFromClientConfig: "" for no URL, an error for a URL that does not parse
urlFromClientConfig(config) ==
    LET urlStr == IF config.URL.set THEN config.URL.v ELSE <<>>
    IN IF urlStr = <<>> THEN [err |-> FALSE, url |-> <<>>]
       ELSE IF Parse(urlStr).err THEN [err |-> TRUE, url |-> <<>>]
       ELSE [err |-> FALSE, url |-> urlStr]

\* the loop over the webhooks of a configuration: the non-empty URLs in
\* order, or the first error
RECURSIVE webhookURLs(_)
webhookURLs(webhooks) ==
    IF webhooks = <<>> THEN [err |-> FALSE, urls |-> <<>>]
    ELSE LET u == urlFromClientConfig(Head(webhooks).ClientConfig)
             r == webhookURLs(Tail(webhooks))
         IN IF u.err THEN [err |-> TRUE, urls |-> <<>>]
            ELSE IF r.err THEN r
            ELSE [err |-> FALSE,
                  urls |-> (IF u.url # <<>> THEN <<u.url>> ELSE <<>>) \o r.urls]

InvalidURLErr(kind, name) == [kind |-> "invalid_url", in |-> kind, name |-> name]
UnsupportedTypeErr == [kind |-> "unsupported_type"]

\* ExtractWebhookURLs: by the type of the object; an error names the kind and
\* the name of the configuration and comes with no URLs
ExtractWebhookURLs(o) ==
    IF o.kind = "mutating"
    THEN IF webhookURLs(o.webhooks).err
         THEN [urls |-> <<>>, err |-> InvalidURLErr("mutating", o.name)]
         ELSE [urls |-> webhookURLs(o.webhooks).urls, err |-> NilErr]
    ELSE IF o.kind = "validating"
    THEN IF webhookURLs(o.webhooks).err
         THEN [urls |-> <<>>, err |-> InvalidURLErr("validating", o.name)]
         ELSE [urls |-> webhookURLs(o.webhooks).urls, err |-> NilErr]
    ELSE [urls |-> <<>>, err |-> UnsupportedTypeErr]

\* "/convert"
WebhookConvertPath == <<"/", "c", "o", "n", "v", "e", "r", "t">>

\* A *CustomResourceConversion and its *WebhookConversion: nil, or set.
NoWebhookConversion ==
    [set |-> FALSE, ConversionReviewVersions |-> <<>>,
     ClientConfig |-> WebhookClientConfig(NoService, NilString, "")]
NoConversion == [set |-> FALSE, Strategy |-> "", Webhook |-> NoWebhookConversion]

\* (the fields of a conversion webhook the CRD already has are kept)
PatchCRDConversion_merge(crd, baseURL, caBundle) ==
    [crd EXCEPT !.Conversion =
        [set |-> TRUE, Strategy |-> "Webhook",
         Webhook |->
            [set |-> TRUE,
             ConversionReviewVersions |->
                IF crd.Conversion.Webhook.set
                THEN crd.Conversion.Webhook.ConversionReviewVersions
                ELSE <<"v1", "v1beta1">>,
             ClientConfig |->
                WebhookClientConfig(crd.Conversion.Webhook.ClientConfig.Service,
                                    Ptr(baseURL \o WebhookConvertPath), caBundle)]]]

\* PatchCRDConversion: spec.conversion is assigned a new conversion
PatchCRDConversion(crd, baseURL, caBundle) ==
    [crd EXCEPT !.Conversion =
        [set |-> TRUE, Strategy |-> "Webhook",
         Webhook |->
            [set |-> TRUE,
             ConversionReviewVersions |-> <<"v1", "v1beta1">>,
             ClientConfig |->
                WebhookClientConfig(NoService, Ptr(baseURL \o WebhookConvertPath),
                                    caBundle)]]]

\* -------------------------------------------------------- internal/jq
\* What running a parsed expression on a tree gives first: no output, null,
\* an error, an object (the tree to put in place), or a value of another
\* type; or the expression does not parse.
Trees == {"tree-a", "tree-b"}

\* the dynamic types of the scalars a query gives, and the type parameters
\* of Query, QuerySlice and QueryMap (any: the empty interface)
ValueTypes == {"string", "bool"}
QueryTypes == ValueTypes \cup {"any"}

\* the keys of a tree and the dynamic types of their values
Keys == {"a", "b"}
Entries(tree) ==
    IF tree = "tree-a" THEN [k \in Keys |-> "string"]
    ELSE [k \in Keys |-> IF k = "a" THEN "string" ELSE "bool"]

Runs ==
    {[kind |-> "parse_error"], [kind |-> "no_output"], [kind |-> "null"],
     [kind |-> "error"]}
        \cup [kind : {"map"}, value : Trees]
        \cup [kind : {"value"}, type : ValueTypes]
        \cup [kind : {"array"},
              items : UNION {[1..n -> ValueTypes] : n \in 0..MaxItems}]

\* %T of a result
DynType(run) ==
    IF run.kind = "map" THEN "map[string]interface {}"
    ELSE IF run.kind = "array" THEN "[]interface {}"
    ELSE IF run.kind = "null" THEN "nil"
    ELSE run.type

\* the zero value of the type asked for (nil for any, a slice and a map)
Zero == [kind |-> "zero"]

\* x.(T) succeeds for a value of dynamic type dyn
Asserts(dyn, type) == type = "any" \/ dyn = type

JQErr(what) == [kind |-> "jq", what |-> what]

\* "expected type %T, got %T", "expected type %T at index %d, got %T",
\* "expected value type %T, got %T for key %v"
TypeErr(what, expected, actual, at) ==
    [kind |-> "jq", what |-> what, expected |-> expected, actual |-> actual,
     at |-> at]

\* Transform: the tree after it and its error
Transform(tree, run) ==
    IF run.kind = "parse_error" THEN [tree |-> tree, err |-> JQErr("parse")]
    ELSE IF run.kind \in {"no_output", "null"} THEN [tree |-> tree, err |-> NilErr]
    ELSE IF run.kind = "error" THEN [tree |-> tree, err |-> JQErr("execution")]
    ELSE IF run.kind # "map" THEN [tree |-> tree, err |-> JQErr("expected map")]
    ELSE [tree |-> run.value, err |-> NilErr]

\* (no result is taken for nil)
IsNil_never(run) == FALSE

\* result == nil
IsNil(run) == run.kind = "null"

\* (a Query that returns whatever the expression gave)
Query_unchecked(type, run) ==
    IF run.kind = "parse_error" THEN [value |-> Zero, err |-> JQErr("parse")]
    ELSE IF run.kind = "no_output" THEN [value |-> Zero, err |-> NilErr]
    ELSE IF run.kind = "error" THEN [value |-> Zero, err |-> JQErr("execution")]
    ELSE IF IsNil(run) THEN [value |-> Zero, err |-> NilErr]
    ELSE [value |-> run, err |-> NilErr]

\* Query[T]: its result (Zero for the zero value of T, else what the
\* expression gave, as it is) and its error
Query(type, run) ==
    IF run.kind = "parse_error" THEN [value |-> Zero, err |-> JQErr("parse")]
    ELSE IF run.kind = "no_output" THEN [value |-> Zero, err |-> NilErr]
    ELSE IF run.kind = "error" THEN [value |-> Zero, err |-> JQErr("execution")]
    ELSE IF IsNil(run) THEN [value |-> Zero, err |-> NilErr]
    ELSE IF ~Asserts(DynType(run), type)
    THEN [value |-> Zero, err |-> TypeErr("expected type", type, DynType(run), "")]
    ELSE [value |-> run, err |-> NilErr]

\* (a QuerySlice that leaves out the elements of another type)
QuerySlice_partial(type, run) ==
    LET r == Query("any", run) IN
    IF r.err # NilErr \/ r.value = Zero THEN [value |-> Zero, err |-> r.err]
    ELSE IF r.value.kind # "array"
    THEN [value |-> Zero,
          err |-> TypeErr("expected array result", "[]interface {}",
                          DynType(r.value), "")]
    ELSE [value |-> [kind |-> "array",
                     items |-> SelectSeq(r.value.items,
                                         LAMBDA t : Asserts(t, type))],
          err |-> NilErr]

\* QuerySlice[T]: Query[any], then the assertion of every element in the
\* order of the array; the index of the error counts from 0
QuerySlice(type, run) ==
    LET r == Query("any", run) IN
    IF r.err # NilErr \/ r.value = Zero THEN [value |-> Zero, err |-> r.err]
    ELSE IF r.value.kind # "array"
    THEN [value |-> Zero,
          err |-> TypeErr("expected array result", "[]interface {}",
                          DynType(r.value), "")]
    ELSE LET items == r.value.items
             bad == {i \in DOMAIN items : ~Asserts(items[i], type)}
         IN IF bad # {}
            THEN LET i == CHOOSE i \in bad : \A j \in bad : i <= j
                 IN [value |-> Zero,
                     err |-> TypeErr("expected type at index", type, items[i], i - 1)]
            ELSE [value |-> r.value, err |-> NilErr]

\* QueryMap[K, V]: Query[any], then the assertion of every key and value in
\* the order the range over the map takes them (order), which the runtime
\* chooses
QueryMap(ktype, vtype, run, order) ==
    LET r == Query("any", run) IN
    IF r.err # NilErr \/ r.value = Zero THEN [value |-> Zero, err |-> r.err]
    ELSE IF r.value.kind # "map"
    THEN [value |-> Zero,
          err |-> TypeErr("expected map result", "map[string]interface {}",
                          DynType(r.value), "")]
    ELSE LET vals == Entries(r.value.value)
             badKey(k) == ~Asserts("string", ktype)
             badValue(k) == ~Asserts(vals[order[k]], vtype)
             bad == {k \in DOMAIN order : badKey(k) \/ badValue(k)}
         IN IF bad # {}
            THEN LET k == CHOOSE k \in bad : \A j \in bad : k <= j
                 IN [value |-> Zero,
                     err |-> IF badKey(k)
                             THEN TypeErr("expected key type", ktype, "string",
                                          order[k])
                             ELSE TypeErr("expected value type", vtype,
                                          vals[order[k]], order[k])]
            ELSE [value |-> r.value, err |-> NilErr]

\* -------------------------------------------- objects under the functions
\* paths, as a service reference can hold them
PathA == <<"/", "a">>
Path2 == <<"/", "2">>
PathQuery == <<"/", "a", "?", "a">>
PathEscaped == <<"/", "a", "%", "2", "2">>
PathBadEscape == <<"/", "a", "%">>
PathRelative == <<"a">>

\* URLs, as a client config can hold them: a://a/a/a, a://a, a!a://a (no
\* scheme and a colon in the first segment), a://a:a/a (a port that is not a
\* number), a://a/a%22, a://a/a?a#a
URLA == <<"a", ":", "/", "/", "a", "/", "a", "/", "a">>
URLNoPath == <<"a", ":", "/", "/", "a">>
URLBadScheme == <<"a", "!", "a", ":", "/", "/", "a">>
URLBadPort == <<"a", ":", "/", "/", "a", ":", "a", "/", "a">>
URLEscaped == <<"a", ":", "/", "/", "a", "/", "a", "%", "2", "2">>
URLQueryFragment == <<"a", ":", "/", "/", "a", "/", "a", "?", "a", "#", "a">>

\* base URLs: scheme://host:port as the environment builds it, and one with
\* a path
BaseURLs == {<<"a", ":", "/", "/", "a", ":", "2">>,
             <<"a", ":", "/", "/", "a", ":", "2", "/", "a">>}

CABundles == {"ca-1", "ca-2"}

ClientConfigs ==
    {WebhookClientConfig(ServiceReference(Ptr(PathA)), NilString, ""),
     WebhookClientConfig(ServiceReference(NilString), NilString, ""),
     WebhookClientConfig(NoService, Ptr(URLA), "ca-0"),
     WebhookClientConfig(NoService, NilString, ""),
     WebhookClientConfig(ServiceReference(Ptr(Path2)), Ptr(URLA), "ca-0"),
     WebhookClientConfig(ServiceReference(NilString), Ptr(URLA), ""),
     WebhookClientConfig(NoService, Ptr(URLBadScheme), ""),
     WebhookClientConfig(NoService, Ptr(URLNoPath), ""),
     WebhookClientConfig(ServiceReference(Ptr(<<>>)), NilString, ""),
     WebhookClientConfig(ServiceReference(Ptr(PathQuery)), NilString, ""),
     WebhookClientConfig(ServiceReference(Ptr(PathEscaped)), NilString, ""),
     WebhookClientConfig(ServiceReference(Ptr(PathRelative)), NilString, ""),
     WebhookClientConfig(NoService, Ptr(URLBadPort), ""),
     WebhookClientConfig(NoService, Ptr(<<>>), ""),
     WebhookClientConfig(NoService, Ptr(URLEscaped), ""),
     WebhookClientConfig(NoService, Ptr(URLQueryFragment), ""),
     WebhookClientConfig(ServiceReference(Ptr(PathBadEscape)), NilString, "")}

Webhooks ==
    [Name : {"sample.example.com"}, ClientConfig : ClientConfigs]
        \cup [Name : {"other.example.com"},
              ClientConfig : {WebhookClientConfig(ServiceReference(Ptr(PathA)),
                                                  NilString, "")}]

ConfigurationNames == {"sample-a", "sample-b"}

NotExtracted == [done |-> FALSE, of |-> <<>>, urls |-> <<>>, err |-> NilErr]

\* a webhook configuration about to be patched and read; an object of
\* another type has no webhooks
WebhookObjects ==
    [stage : {"webhook"},
     kind : {"mutating", "validating"},
     name : ConfigurationNames,
     webhooks : UNION {[1..n -> Webhooks] : n \in 0..MaxWebhooks},
     prev : {<<>>},
     baseURL : BaseURLs,
     caBundle : CABundles,
     patches : {0},
     extract : {NotExtracted}]
    \cup
    [stage : {"webhook"}, kind : {"other"}, name : ConfigurationNames,
     webhooks : {<<>>}, prev : {<<>>}, baseURL : BaseURLs, caBundle : CABundles,
     patches : {0}, extract : {NotExtracted}]

\* the conversion a CRD can come with: none, strategy None, a webhook
\* through a service with one review version
Conversions ==
    {NoConversion,
     [set |-> TRUE, Strategy |-> "None", Webhook |-> NoWebhookConversion],
     [set |-> TRUE, Strategy |-> "Webhook",
      Webhook |-> [set |-> TRUE, ConversionReviewVersions |-> <<"v1beta1">>,
                   ClientConfig |->
                       WebhookClientConfig(ServiceReference(Ptr(PathA)), NilString,
                                           "ca-0")]],
     [set |-> TRUE, Strategy |-> "Webhook",
      Webhook |-> [set |-> TRUE, ConversionReviewVersions |-> <<"v1">>,
                   ClientConfig |->
                       WebhookClientConfig(NoService, Ptr(URLA), "ca-0")]]}

CRDObjects ==
    [stage : {"crd"},
     crd : [name : CRDNames, Conversion : Conversions],
     prev : {[name |-> "", Conversion |-> NoConversion]},
     baseURL : BaseURLs,
     caBundle : CABundles,
     patches : {0}]

\* the CRDs given to the filter: with and without group and kind
FilterCRDs_inputs ==
    {CRDManifest("samples.a.example.com", "a.example.com", "Sample"),
     CRDManifest("samples.b.example.com", "b.example.com", "Sample"),
     CRDManifest("others.a.example.com", "a.example.com", "Other"),
     CRDManifest("nogroup.example.com", "", "Sample"),
     CRDManifest("nokind.a.example.com", "a.example.com", ""),
     CRDManifest("neither.example.com", "", "")}

NotFiltered == [done |-> FALSE, err |-> NilErr, crds |-> <<>>]

FilterObjects ==
    [stage : {"filter"},
     scheme : {{}, SchemeA, SchemeAB, SchemeInconsistent},
     crds : UNION {[1..n -> FilterCRDs_inputs] : n \in 0..MaxCRDs},
     result : {NotFiltered}]

\* the orders in which a range over a map with Keys can take them
KeyOrders == {<<"a", "b">>, <<"b", "a">>}

\* a tree about to be transformed or queried with an expression
JQObjects ==
    [stage : {"transform"}, tree : Trees, run : Runs,
     result : {[done |-> FALSE, tree |-> "", err |-> NilErr]}]
    \cup
    [stage : {"query", "queryslice"}, tree : Trees, type : QueryTypes, run : Runs,
     result : {[done |-> FALSE, value |-> Zero, err |-> NilErr]}]
    \cup
    [stage : {"querymap"}, tree : Trees, ktype : ValueTypes, vtype : QueryTypes,
     run : Runs, order : KeyOrders,
     result : {[done |-> FALSE, value |-> Zero, err |-> NilErr]}]

IsWebhookObj == obj.stage = "webhook"
IsCRDObj == obj.stage = "crd"
IsFilterObj == obj.stage = "filter"

InitResources ==
    /\ now = 0
    /\ ctx = "active"
    /\ cluster = [crds |-> [n \in CRDNames |-> NoCRD], webhooks |-> {}]
    /\ wait = IdleWait
    /\ poll = IdlePoll
    /\ call = IdleCall
    /\ hist = NewHist(ctx)
    /\ env = NoEnv
    /\ log = <<>>
    /\ obj \in WebhookObjects \cup CRDObjects \cup FilterObjects \cup JQObjects
    /\ machine = EmptyMachine

\* resources.PatchMutatingWebhookConfiguration(webhook, baseURL, caBundle)
PatchMutating ==
    /\ IsWebhookObj /\ obj.kind = "mutating" /\ obj.patches < MaxPatches
    /\ obj' = [obj EXCEPT
                 !.webhooks = PatchMutatingWebhookConfiguration(obj.webhooks, obj.baseURL,
                                                                obj.caBundle),
                 !.prev = obj.webhooks,
                 !.patches = obj.patches + 1]
    /\ UNCHANGED <<now, ctx, cluster, wait, poll, call, hist, env, log, machine>>

\* resources.PatchValidatingWebhookConfiguration(webhook, baseURL, caBundle)
PatchValidating ==
    /\ IsWebhookObj /\ obj.kind = "validating" /\ obj.patches < MaxPatches
    /\ obj' = [obj EXCEPT
                 !.webhooks = PatchValidatingWebhookConfiguration(obj.webhooks,
                                                                  obj.baseURL,
                                                                  obj.caBundle),
                 !.prev = obj.webhooks,
                 !.patches = obj.patches + 1]
    /\ UNCHANGED <<now, ctx, cluster, wait, poll, call, hist, env, log, machine>>

\* urls, err := resources.ExtractWebhookURLs(obj)
ExtractURLs ==
    /\ IsWebhookObj
    /\ ~obj.extract.done \/ obj.extract.of # obj.webhooks
    /\ obj' = [obj EXCEPT
                 !.extract = [done |-> TRUE, of |-> obj.webhooks,
                              urls |-> ExtractWebhookURLs(obj).urls,
                              err |-> ExtractWebhookURLs(obj).err]]
    /\ UNCHANGED <<now, ctx, cluster, wait, poll, call, hist, env, log, machine>>

\* resources.PatchCRDConversion(crd, baseURL, caBundle)
PatchCRD ==
    /\ IsCRDObj /\ obj.patches < MaxPatches
    /\ obj' = [obj EXCEPT
                 !.crd = PatchCRDConversion(obj.crd, obj.baseURL, obj.caBundle),
                 !.prev = obj.crd,
                 !.patches = obj.patches + 1]
    /\ UNCHANGED <<now, ctx, cluster, wait, poll, call, hist, env, log, machine>>

\* convertibles, err := resources.FilterConvertibleCRDs(scheme, crds)
Filter ==
    /\ IsFilterObj /\ ~obj.result.done
    /\ obj' = [obj EXCEPT
                 !.result = [done |-> TRUE,
                             err |-> FilterConvertibleCRDs(obj.scheme, obj.crds).err,
                             crds |-> FilterConvertibleCRDs(obj.scheme, obj.crds).crds]]
    /\ UNCHANGED <<now, ctx, cluster, wait, poll, call, hist, env, log, machine>>

\* err := jq.Transform(obj, expression, args...)
TransformTree ==
    /\ obj.stage = "transform" /\ ~obj.result.done
    /\ obj' = [obj EXCEPT
                 !.result = [done |-> TRUE, tree |-> Transform(obj.tree, obj.run).tree,
                             err |-> Transform(obj.tree, obj.run).err]]
    /\ UNCHANGED <<now, ctx, cluster, wait, poll, call, hist, env, log, machine>>

\* value, err := jq.Query[T](obj, expression, args...)
QueryTree ==
    /\ obj.stage = "query" /\ ~obj.result.done
    /\ obj' = [obj EXCEPT
                 !.result = [done |-> TRUE, value |-> Query(obj.type, obj.run).value,
                             err |-> Query(obj.type, obj.run).err]]
    /\ UNCHANGED <<now, ctx, cluster, wait, poll, call, hist, env, log, machine>>

\* values, err := jq.QuerySlice[T](obj, expression, args...)
QuerySliceTree ==
    /\ obj.stage = "queryslice" /\ ~obj.result.done
    /\ obj' = [obj EXCEPT
                 !.result = [done |-> TRUE, value |-> QuerySlice(obj.type, obj.run).value,
                             err |-> QuerySlice(obj.type, obj.run).err]]
    /\ UNCHANGED <<now, ctx, cluster, wait, poll, call, hist, env, log, machine>>

\* values, err := jq.QueryMap[K, V](obj, expression, args...)
QueryMapTree ==
    /\ obj.stage = "querymap" /\ ~obj.result.done
    /\ LET r == QueryMap(obj.ktype, obj.vtype, obj.run, obj.order)
       IN obj' = [obj EXCEPT
                    !.result = [done |-> TRUE, value |-> r.value, err |-> r.err]]
    /\ UNCHANGED <<now, ctx, cluster, wait, poll, call, hist, env, log, machine>>

NextResources ==
    \/ TransformTree
    \/ QueryTree
    \/ QuerySliceTree
    \/ QueryMapTree
    \/ PatchMutating
    \/ PatchValidating
    \/ ExtractURLs
    \/ PatchCRD
    \/ Filter

SpecResources == InitResources /\ [][NextResources]_vars

\* ------------------------------------------------------------- properties
WaitFailed == wait.pc = "done" /\ wait.err.kind = "not_ready"

\* C1: a probe that gets a 2xx, 3xx or 4xx answer makes the endpoint healthy
\* (its wait ends successfully); a 5xx answer or a transport failure sends
\* the poll back to wait for the next tick.
C1_ProbeClassification ==
    [][(wait.kind = "webhook" /\ wait.pc = "inflight" /\ wait'.pc # "inflight")
         => IF call'.resp.kind = "http" /\ call'.resp.status < 500
            THEN wait'.pc = "loop" /\ wait.idx \in hist'.healthy
            ELSE wait'.pc = "select"]_vars

\* C2: a wait entered with a cancelled context ends within one poll tick with
\* a cancellation error; a wait whose context expired by the ready timeout
\* reports the timeout, and a cancellation is reported only when the caller
\* cancelled.
C2_CancelDistinctFromTimeout ==
    wait.pc = "done" =>
        /\ hist.cancelPc = "pre" =>
              /\ WaitFailed
              /\ wait.err.cause = "canceled"
              /\ now - hist.waitStart < wait.opts.PollInterval
        /\ (WaitFailed /\ poll.dctx = "deadline") => wait.err.cause = "deadline"
        /\ (WaitFailed /\ wait.err.cause = "canceled") => ctx = "canceled"

C2_Witness ==
    /\ wait.pc = "done"
    /\ hist.cancelPc = "pre"
    /\ wait.kind = "webhook"
    /\ wait.err.cause = "canceled"

\* C3: once the caller has cancelled while a probe is in flight, no time
\* passes and no answer is taken before the call is aborted, and the wait
\* ends with the cancellation error, not the timeout.
C3_CancelAbortsInFlight ==
    /\ [][(wait.kind = "webhook" /\ wait.pc = "inflight" /\ ctx = "canceled")
            => /\ now' = now
               /\ wait'.pc # "inflight" => call'.resp = AbortedResp]_vars
    /\ []((wait.kind = "webhook" /\ wait.pc = "done" /\ hist.cancelPc = "inflight")
            => (WaitFailed /\ wait.err.cause = "canceled"))

C3_Witness ==
    /\ wait.kind = "webhook"
    /\ wait.pc = "done"
    /\ hist.cancelPc = "inflight"
    /\ call.resp = AbortedResp
    /\ now > call.start

\* C4: an endpoint found healthy after N answers of 5xx was probed N+1 times
\* and at least N poll intervals have passed; and while answers come at once
\* the wait does not give up before N poll intervals fill the ready timeout.
C4_RetryThenReady ==
    wait.kind = "webhook" =>
        /\ (wait.pc = "loop" /\ wait.idx > 1 /\ hist.only5xx) =>
              /\ poll.attempts >= 1
              /\ (wait.idx - 1) \in hist.healthy
              /\ now - poll.start >= (poll.attempts - 1) * wait.opts.PollInterval
        /\ (WaitFailed /\ wait.err.cause = "deadline" /\ ~hist.slow) =>
              poll.attempts * wait.opts.PollInterval >= wait.opts.ReadyTimeout

C4_Witness ==
    /\ wait.kind = "webhook"
    /\ wait.pc = "loop"
    /\ wait.idx > 1
    /\ hist.only5xx
    /\ poll.attempts = 3
    /\ now - poll.start >= 2 * wait.opts.PollInterval

\* C5: a target is probed only after every earlier target was found healthy,
\* and a failed wait names the target it stopped at, which is the last one
\* probed.
C5_SequentialAttribution ==
    /\ \A i \in hist.probed : \A j \in 1..(i - 1) : j \in hist.healthy
    /\ WaitFailed =>
          /\ wait.err.name = targetName(wait.kind, wait.targets[wait.idx])
          /\ wait.idx \notin hist.healthy
          /\ \A j \in hist.probed : j <= wait.idx

C5_Witness ==
    /\ wait.kind = "webhook"
    /\ WaitFailed
    /\ Len(wait.targets) = 2
    /\ hist.probed = {1}
    /\ wait.err.cause = "deadline"

C7_CallTimeoutNested ==
    /\ [](wait.kind = "webhook" =>
            /\ wait.pc = "inflight" =>
                  /\ now <= call.start + wait.opts.CallTimeout
                  /\ now <= poll.deadline
            /\ WaitFailed => poll.dctx # "active")
    /\ [][(/\ wait.kind = "webhook"
           /\ wait.pc = "inflight"
           /\ call'.resp = AbortedResp
           /\ poll.dctx = "active")
            => /\ now = call.start + wait.opts.CallTimeout
               /\ wait'.pc = "select"
               /\ wait'.err = Pending]_vars

C7_Witness ==
    /\ wait.kind = "webhook"
    /\ wait.pc = "select"
    /\ call.resp = AbortedResp
    /\ poll.dctx = "active"
    /\ now < poll.deadline

\* the steps of InstallWebhooks
InInstallWebhooks == env.pc \in {"installWebhooks", "installWebhook", "waitEndpoints",
                                 "filterCRDs", "patchCRD"}

LastLog == log[Len(log)]

\* C8: the step of InstallWebhooks that fails is its last: no write to the
\* cluster and no readiness wait follows it, InstallWebhooks has returned the
\* error, and what earlier steps applied to the cluster is still there.
C8_FirstFailureAborts ==
    /\ \A i \in 1..Len(log) : ~log[i].ok => i = Len(log)
    /\ (log # <<>> /\ ~LastLog.ok) =>
          /\ env.iw = "error"
          /\ ~InInstallWebhooks
          /\ wait.kind # "webhook"
    /\ env.iw = "error" => (log # <<>> /\ ~LastLog.ok /\ env.result = "error")
    /\ \A i \in 1..Len(log) :
          log[i].ok =>
             /\ log[i].op = "apply" => log[i].name \in cluster.webhooks
             /\ log[i].op = "update" =>
                   cluster.crds[log[i].name].conversion = "webhook"

C8_Witness ==
    /\ env.iw = "error"
    /\ Len(WebhookConfigs(env.manifests)) = 2
    /\ Len(log) = 2
    /\ log[1].ok
    /\ LastLog.op = "probe"
    /\ cluster.webhooks = {"mutating-cfg"}

\* the configuration of the manifests with a name
ConfigNamed(n) ==
    CHOOSE wh \in {WebhookConfigs(env.manifests)[i] :
                      i \in 1..Len(WebhookConfigs(env.manifests))} : wh.name = n

\* C9: endpoints are waited for only with the readiness check enabled, and
\* only for the configuration just applied to the cluster; with the check
\* enabled every applied configuration that has endpoints is waited for next,
\* its first endpoint is probed, and a wait that succeeds probed them all.
C9_ProbeIffReadiness ==
    /\ wait.kind = "webhook" =>
          /\ env.options.CheckReadiness
          /\ log # <<>>
          /\ LastLog.op = "apply" /\ LastLog.ok
          /\ LastLog.name = WebhookConfigs(env.manifests)[env.idx].name
          /\ LastLog.name \in cluster.webhooks
          /\ wait.targets = ConfigNamed(LastLog.name).urls
    /\ \A i \in 1..Len(log) :
          /\ log[i].op = "probe" =>
                /\ env.options.CheckReadiness
                /\ i > 1
                /\ log[i - 1].op = "apply" /\ log[i - 1].ok
                /\ log[i - 1].name = log[i].name
                /\ log[i].probes >= 1
                /\ log[i].ok => log[i].probes = Len(ConfigNamed(log[i].name).urls)
          /\ (/\ log[i].op = "apply" /\ log[i].ok
              /\ env.options.CheckReadiness
              /\ Len(ConfigNamed(log[i].name).urls) > 0) =>
                IF i = Len(log)
                THEN env.pc = "waitEndpoints" /\ wait.kind = "webhook"
                ELSE log[i + 1].op = "probe" /\ log[i + 1].name = log[i].name

C9_Witness ==
    /\ env.options.CheckReadiness
    /\ \E i \in 1..Len(log) :
          log[i].op = "probe" /\ log[i].ok /\ log[i].probes = 2
    /\ env.iw = "nil"

\* C10: InstallWebhooks updates the conversion of a CRD only when that CRD
\* exists in the cluster and is Established as the update is made, and no
\* step of InstallWebhooks creates a CRD.
C10_UpdateOnlyEstablished ==
    [][/\ (/\ Len(log') > Len(log)
           /\ log'[Len(log')].op = "update"
           /\ log'[Len(log')].ok)
          => /\ cluster.crds[log'[Len(log')].name].exists
             /\ cluster.crds[log'[Len(log')].name].established
       /\ InInstallWebhooks =>
             \A n \in CRDNames : cluster'.crds[n].exists = cluster.crds[n].exists]_vars

\* the stage of a CRD of the cluster, as a rank: 0 not submitted, 1 Submitted,
\* 2 Established, 3 ConversionPatched
CRDStage(crd) ==
    IF ~crd.exists THEN 0
    ELSE IF crd.conversion = "webhook" THEN 3
    ELSE IF crd.established THEN 2
    ELSE 1

\* the manifests given to the environment hold a convertible CRD named n
ConvertibleManifest(n) ==
    \E i \in 1..Len(env.objects.crds) :
        /\ env.objects.crds[i].name = n
        /\ [group |-> env.objects.crds[i].group, kind |-> env.objects.crds[i].kind]
              \in AllConvertibleTypes(env.options.Scheme)

\* C11: a CRD only moves forward through Submitted, Established,
\* ConversionPatched; a CRD whose conversion is patched is Established and is
\* a convertible CRD of the manifests.
C11_CRDStateMachine ==
    /\ [](\A n \in CRDNames :
            cluster.crds[n].conversion = "webhook" =>
               /\ cluster.crds[n].exists
               /\ cluster.crds[n].established
               /\ ConvertibleManifest(n))
    /\ [][\A n \in CRDNames :
            /\ CRDStage(cluster'.crds[n]) >= CRDStage(cluster.crds[n])
            /\ CRDStage(cluster'.crds[n]) = 3 => CRDStage(cluster.crds[n]) >= 2]_vars

\* C12: a wait for CRDs returns success only when every CRD was read
\* Established; a CRD still not Established when its ready timeout has passed
\* ends the wait with an error that names that CRD.
C12_SubmittedPastTimeoutFails ==
    (wait.kind = "crd" /\ wait.pc = "done") =>
        /\ wait.err = NilErr =>
              \A i \in 1..Len(wait.targets) :
                 /\ i \in hist.healthy
                 /\ CRDStage(cluster.crds[wait.targets[i]]) >= 2
        /\ WaitFailed =>
              /\ wait.err.name = wait.targets[wait.idx]
              /\ wait.idx \notin hist.healthy
        /\ (WaitFailed /\ wait.err.cause = "deadline") =>
              now - poll.start >= wait.opts.ReadyTimeout
        /\ (\E i \in 1..Len(wait.targets) :
               CRDStage(cluster.crds[wait.targets[i]]) < 2) => WaitFailed

C12_Witness ==
    /\ wait.kind = "crd"
    /\ WaitFailed
    /\ wait.err.cause = "deadline"
    /\ wait.err.name = "samples.b.example.com"
    /\ CRDStage(cluster.crds["samples.b.example.com"]) = 1
    /\ poll.attempts >= 2

\* C13: every entry of a patched webhook configuration has the url and no
\* service reference, its url is the base URL followed by the effective path
\* of the entry as it was before the patch, and its caBundle is the provided
\* CA bundle.
C13_PatchedEntries ==
    (IsWebhookObj /\ obj.patches >= 1) =>
        /\ DOMAIN obj.webhooks = DOMAIN obj.prev
        /\ \A i \in DOMAIN obj.webhooks :
             LET config == obj.webhooks[i].ClientConfig
             IN /\ config.URL.set /\ ~config.Service.set
                /\ config.URL.v = obj.baseURL \o effectivePath(obj.prev[i].ClientConfig)
                /\ config.CABundle = obj.caBundle

\* a configuration of two entries, one through a service and one with a URL
\* and another CA bundle, has been patched
C13_Witness ==
    /\ IsWebhookObj /\ obj.patches = 1 /\ Len(obj.webhooks) = 2
    /\ obj.prev[1].ClientConfig.Service.set
    /\ obj.prev[2].ClientConfig.URL.set /\ obj.prev[2].ClientConfig.CABundle = "ca-0"
    /\ obj.webhooks[2].ClientConfig.CABundle = obj.caBundle

\* the entry has a service reference with a path
HasServicePath(config) == config.Service.set /\ config.Service.Path.set

\* the entry has a URL with a path component (a URL that parses)
HasURLPath(config) == config.URL.set /\ ~Parse(config.URL.v).err

\* C14: the path a patch appends to the base URL is the path of the entry's
\* service reference if it had one, else the path component of the URL the
\* entry had, else "/".
C14_EffectivePathOrder ==
    (IsWebhookObj /\ obj.patches >= 1) =>
        \A i \in DOMAIN obj.webhooks :
            LET before == obj.prev[i].ClientConfig
                url == obj.webhooks[i].ClientConfig.URL.v
            IN /\ HasServicePath(before) => url = obj.baseURL \o before.Service.Path.v
               /\ (~HasServicePath(before) /\ HasURLPath(before)) =>
                      url = obj.baseURL \o Parse(before.URL.v).Path
               /\ (~HasServicePath(before) /\ ~HasURLPath(before)) =>
                      url = obj.baseURL \o <<"/">>

\* an entry that had both a service path and a URL with another path, and an
\* entry with a service reference without a path and a URL, have been patched
C14_Witness ==
    /\ IsWebhookObj /\ obj.patches = 1 /\ Len(obj.webhooks) = 2
    /\ HasServicePath(obj.prev[1].ClientConfig) /\ HasURLPath(obj.prev[1].ClientConfig)
    /\ obj.prev[1].ClientConfig.Service.Path.v # Parse(obj.prev[1].ClientConfig.URL.v).Path
    /\ obj.prev[2].ClientConfig.Service.set /\ ~HasServicePath(obj.prev[2].ClientConfig)
    /\ HasURLPath(obj.prev[2].ClientConfig)
    /\ obj.webhooks[2].ClientConfig.URL.v = obj.baseURL \o <<"/", "a", "/", "a">>

\* C15: an entry without a service path and without a URL is patched to the
\* URL base URL + "/".
C15_DefaultPath ==
    (IsWebhookObj /\ obj.patches >= 1) =>
        \A i \in DOMAIN obj.webhooks :
            (~HasServicePath(obj.prev[i].ClientConfig) /\ ~obj.prev[i].ClientConfig.URL.set)
                => obj.webhooks[i].ClientConfig.URL = Ptr(obj.baseURL \o <<"/">>)

\* an entry with a service reference without a path and no URL, and an entry
\* with neither a service reference nor a URL, have been patched
C15_Witness ==
    /\ IsWebhookObj /\ obj.patches = 1 /\ Len(obj.webhooks) = 2
    /\ obj.prev[1].ClientConfig.Service.set /\ ~obj.prev[1].ClientConfig.Service.Path.set
    /\ ~obj.prev[1].ClientConfig.URL.set
    /\ ~obj.prev[2].ClientConfig.Service.set /\ ~obj.prev[2].ClientConfig.URL.set
    /\ obj.webhooks[1].ClientConfig.URL = Ptr(obj.baseURL \o <<"/">>)

\* C16: both patch operations are idempotent: whatever the object, the base
\* URL and the CA bundle, a second application with the same arguments leaves
\* the object as the first application left it.
C16_PatchIdempotent ==
    /\ (IsWebhookObj /\ obj.patches = 2) => obj.webhooks = obj.prev
    /\ (IsCRDObj /\ obj.patches = 2) => obj.crd = obj.prev

\* the conversion PatchCRDConversion is to leave, written out
PatchedConversion(baseURL, caBundle) ==
    [set |-> TRUE, Strategy |-> "Webhook",
     Webhook |-> [set |-> TRUE,
                  ConversionReviewVersions |-> <<"v1", "v1beta1">>,
                  ClientConfig |->
                      [Service |-> NoService,
                       URL |-> Ptr(baseURL \o <<"/", "c", "o", "n", "v", "e", "r", "t">>),
                       CABundle |-> caBundle]]]

\* C17: after PatchCRDConversion the conversion of the CRD is exactly
\* strategy Webhook with review versions v1, v1beta1 and a client config of
\* the url base URL + "/convert" and the CA bundle, whatever conversion the
\* CRD had before; nothing of the former conversion is kept.
C17_FullOverwrite ==
    (IsCRDObj /\ obj.patches >= 1) =>
        /\ obj.crd.Conversion = PatchedConversion(obj.baseURL, obj.caBundle)
        /\ obj.crd.name = obj.prev.name

\* a CRD that had a conversion webhook through a service, with one review
\* version and another CA bundle, has been patched
C17_Witness ==
    /\ IsCRDObj /\ obj.patches = 1
    /\ obj.prev.Conversion.set /\ obj.prev.Conversion.Webhook.set
    /\ obj.prev.Conversion.Webhook.ClientConfig.Service.set
    /\ obj.prev.Conversion.Webhook.ConversionReviewVersions = <<"v1beta1">>
    /\ obj.prev.Conversion.Webhook.ClientConfig.CABundle # obj.caBundle
    /\ ~obj.crd.Conversion.Webhook.ClientConfig.Service.set

\* the entry holds a URL that is not empty and does not parse
MalformedURL(config) == config.URL.set /\ config.URL.v # <<>> /\ Parse(config.URL.v).err

\* C18: when an entry of a mutating or validating webhook configuration
\* holds a malformed URL, the extraction of the URLs returns no URL and an
\* error naming the configuration and its kind.
C18_MalformedURLReported ==
    (/\ IsWebhookObj /\ obj.extract.done /\ obj.kind \in {"mutating", "validating"}
     /\ \E i \in DOMAIN obj.extract.of : MalformedURL(obj.extract.of[i].ClientConfig))
        => /\ obj.extract.urls = <<>>
           /\ obj.extract.err = [kind |-> "invalid_url", in |-> obj.kind, name |-> obj.name]

\* the URLs of a configuration whose second entry holds a malformed URL,
\* after a first entry with a well-formed one, have been extracted
C18_Witness ==
    /\ IsWebhookObj /\ obj.extract.done /\ Len(obj.extract.of) = 2
    /\ obj.extract.of[1].ClientConfig.URL = Ptr(URLA)
    /\ obj.extract.of[2].ClientConfig.URL = Ptr(URLBadScheme)
    /\ obj.extract.err.kind = "invalid_url" /\ obj.extract.err.in = "validating"
    /\ obj.extract.err.name = "sample-b" /\ obj.extract.urls = <<>>

\* the group and kind of the CRD are of a type of the scheme that supports
\* conversion
InResolvedSet(crd) ==
    \E t \in obj.scheme : t.convertible /\ t.group = crd.group /\ t.kind = crd.kind

LacksField(crd) == crd.group = "" \/ crd.kind = ""

\* C19: when every CRD given to the filter has a group and a kind, the
\* filter returns, without error and in the order of the input, the CRDs
\* whose (group, kind) is in the set of convertible types.
C19_FilterSelects ==
    (/\ IsFilterObj /\ obj.result.done
     /\ \A i \in DOMAIN obj.crds : ~LacksField(obj.crds[i]))
        => /\ obj.result.err = NilErr
           /\ obj.result.crds = SelectSeq(obj.crds, InResolvedSet)

\* two CRDs of a scheme with a convertible and a non-convertible type have
\* been filtered: the second one, convertible, is the one returned
C19_Witness ==
    /\ IsFilterObj /\ obj.result.done /\ Len(obj.crds) = 2
    /\ ~LacksField(obj.crds[1]) /\ ~InResolvedSet(obj.crds[1])
    /\ \E t \in obj.scheme : t.group = obj.crds[1].group /\ t.kind = obj.crds[1].kind
    /\ InResolvedSet(obj.crds[2])
    /\ obj.result.crds = <<obj.crds[2]>>

\* C20: when a CRD given to the filter lacks spec.group or spec.names.kind,
\* the filter returns no CRD and an error naming the first such CRD and the
\* field it lacks (the group before the kind), wherever the CRD is in the
\* list and whatever the other CRDs are.
C20_MissingFieldReported ==
    (/\ IsFilterObj /\ obj.result.done
     /\ \E i \in DOMAIN obj.crds : LacksField(obj.crds[i]))
        => /\ obj.result.crds = <<>>
           /\ \E i \in DOMAIN obj.crds :
                /\ LacksField(obj.crds[i])
                /\ \A j \in 1..(i - 1) : ~LacksField(obj.crds[j])
                /\ obj.result.err =
                       [kind |-> "missing_field", name |-> obj.crds[i].name,
                        field |-> IF obj.crds[i].group = "" THEN "spec.group"
                                  ELSE "spec.names.kind"]

\* a convertible CRD followed by a CRD without kind have been filtered
C20_Witness ==
    /\ IsFilterObj /\ obj.result.done /\ Len(obj.crds) = 2
    /\ InResolvedSet(obj.crds[1])
    /\ obj.crds[2].group # "" /\ obj.crds[2].kind = ""
    /\ obj.result.err = [kind |-> "missing_field", name |-> obj.crds[2].name,
                         field |-> "spec.names.kind"]

\* C22: every poll loop of an environment, for the readiness of webhook
\* endpoints and for the establishment of CRDs, runs with an interval of at
\* least 10ms (one tick): New returns no environment for options with a
\* smaller, zero or negative poll interval.
C22_PollIntervalFloor ==
    (env # NoEnv /\ wait.kind \in {"webhook", "crd"}) => TickPeriod(wait.opts) >= Ticks(10)

\* a CRD wait of an environment has polled twice at the smallest interval
\* New accepts, while New rejects an interval of 5ms
C22_Witness ==
    /\ env # NoEnv /\ wait.kind = "crd" /\ poll.attempts >= 2
    /\ TickPeriod(wait.opts) = Ticks(10)
    /\ \E r \in RawOptions : r.CRD.PollInterval = 5 /\ validate(r).why = "too small"

\* C28: whenever Start returns without error, every CRD of the manifests
\* is in the cluster and Established (the wait of Start has seen it so).
C28_StartEstablishesCRDs ==
    [][(env.api = "Start" /\ env'.api = "idle" /\ env'.result = "nil") =>
          \A i \in DOMAIN env.objects.crds :
              /\ cluster'.crds[env.objects.crds[i].name].exists
              /\ cluster'.crds[env.objects.crds[i].name].established]_vars

\* Start, called on a new environment with two CRDs in its manifests, has
\* returned without error
C28_Witness ==
    /\ env # NoEnv /\ env.api = "idle" /\ env.started /\ ~env.installed
    /\ env.result = "nil"
    /\ Len(env.objects.crds) = 2
    /\ \A n \in CRDNames : cluster.crds[n].established

\* the errors of the install, patch, filter and readiness operations
WebhookOps == {"apply webhook", "webhook config endpoints not ready"}
CRDOps == {"create CRD", "CRD not established", "determine convertible CRDs",
           "get CRD", "update CRD"}

\* C29: every error the environment returns from installing, patching,
\* filtering or waiting for readiness names the object it is about: a webhook
\* configuration of the manifests (and, for readiness, the endpoint of that
\* configuration that was not ready) or a CRD of the manifests; InstallWebhooks
\* returns no other error.
C29_ErrorsNameResource ==
    (env # NoEnv /\ env.result = "error") =>
        /\ env.iw = "error" => env.err.kind \in WebhookOps \cup CRDOps
        /\ env.err.kind \in WebhookOps =>
              \E i \in DOMAIN WebhookConfigs(env.manifests) :
                  LET wh == WebhookConfigs(env.manifests)[i]
                  IN /\ env.err.name = wh.name
                     /\ env.err.kind = "webhook config endpoints not ready" =>
                            /\ env.err.cause.kind = "not_ready"
                            /\ \E j \in DOMAIN wh.urls :
                                   env.err.cause.name = endpointPath(wh.urls[j])
        /\ env.err.kind \in CRDOps =>
              \E i \in DOMAIN env.manifests.crds :
                  LET crd == env.manifests.crds[i]
                  IN /\ env.err.name = crd.name
                     /\ env.err.kind = "determine convertible CRDs" =>
                            (crd.group = "" \/ crd.kind = "")
                     /\ env.err.kind = "CRD not established" =>
                            env.err.cause = NotReadyErr(crd.name, env.err.cause.cause)

\* InstallWebhooks has returned the error of the second webhook configuration,
\* whose endpoint was not ready
C29_Witness ==
    /\ env # NoEnv /\ env.result = "error" /\ env.iw = "error"
    /\ env.err.kind = "webhook config endpoints not ready"
    /\ Len(WebhookConfigs(env.manifests)) = 2
    /\ env.err.name = WebhookConfigs(env.manifests)[2].name
    /\ env.err.name # WebhookConfigs(env.manifests)[1].name
    /\ env.err.cause.kind = "not_ready"

\* C30: a success with an empty or unchanged result stands for a problem
\* nowhere but in a query that finds no value: a transform that succeeds has
\* put the object its expression gave in place; the filter that succeeds was
\* given a scheme whose every type could be checked for convertibility, and
\* no CRD without group or kind; the extraction of URLs that succeeds met no
\* malformed URL.
C30_NoSilentEmpty ==
    /\ (obj.stage = "transform" /\ obj.result.done /\ obj.result.err = NilErr)
          => (obj.run.kind = "map" /\ obj.result.tree = obj.run.value)
    /\ (IsFilterObj /\ obj.result.done /\ obj.result.err = NilErr)
          => /\ \A t \in obj.scheme : ~t.inconsistent
             /\ \A i \in DOMAIN obj.crds : ~LacksField(obj.crds[i])
    /\ (IsWebhookObj /\ obj.extract.done /\ obj.extract.err = NilErr)
          => \A i \in DOMAIN obj.extract.of : ~MalformedURL(obj.extract.of[i].ClientConfig)

\* C21: the client of the readiness probes trusts only the CA the
\* environment issued: a probe has a response only over a connection whose
\* server certificate chains to the CA of the environment's bundle.
C21_ProbeTrustsIssuedCA ==
    (env # NoEnv /\ wait.kind = "webhook" /\ call.resp.kind = "http")
        => /\ env.certData # NoCertData
           /\ call.resp.issuer = env.certData

\* a probe of an environment's wait was answered and found the endpoint
\* healthy, and the wait was built without skipping verification
C21_Witness ==
    /\ env # NoEnv
    /\ wait.kind = "webhook"
    /\ CallOK(call.resp)
    /\ ~wait.tls.InsecureSkipVerify
    /\ wait.tls.RootCAs = {env.certData}

\* C23: Stop runs the teardown tasks in the reverse of the order of their
\* registration: the last one registered first, the first one last.
C23_ReverseOrder ==
    (env # NoEnv /\ env.stop.called) =>
        /\ Len(env.stop.ran) = Len(env.teardownTasks)
        /\ \A k \in DOMAIN env.stop.ran :
              env.stop.ran[k] = Len(env.teardownTasks) - k + 1

\* Stop has run a task of the user's registered before Start, the removal
\* Start registered, and a task registered after it
C23_Witness ==
    /\ env # NoEnv
    /\ env.stop.called
    /\ Len(env.teardownTasks) = 3
    /\ env.teardownTasks[2].kind = "RemoveAll"
    /\ env.stop.ran = <<3, 2, 1>>

\* C24: Stop degrades gracefully when cleanup fails: whichever tasks fail,
\* every registered task has been run, the termination of the container
\* (if the environment has one) has been attempted, and the error returned
\* holds one error for every task that failed and one for a termination that
\* failed; it is nil only when nothing failed.
C24_StopRunsEverything ==
    (env # NoEnv /\ env.stop.called) =>
        /\ {env.stop.ran[k] : k \in DOMAIN env.stop.ran} = DOMAIN env.teardownTasks
        /\ env.container # NoContainer => env.stop.terminate \in {"ok", "failed"}
        /\ \A i \in env.stop.failed :
              /\ env.err.kind = "join"
              /\ \E k \in DOMAIN env.err.errs : env.err.errs[k] = TeardownErr(i)
        /\ env.stop.terminate = "failed" =>
              /\ env.err.kind = "join"
              /\ \E k \in DOMAIN env.err.errs : env.err.errs[k] = TerminateErr
        /\ env.result = "nil" <=>
              (env.stop.failed = {} /\ env.stop.terminate # "failed")

\* the last task registered failed, and Stop went on to the earlier ones and
\* to the termination, which failed too
C24_Witness ==
    /\ env # NoEnv
    /\ env.stop.called
    /\ Len(env.teardownTasks) = 3
    /\ env.stop.failed = {3}
    /\ env.stop.ran = <<3, 2, 1>>
    /\ env.stop.terminate = "failed"
    /\ env.err = Join(<<TeardownErr(3), TerminateErr>>)

\* the container and the generated certificate directory Start #1 created
\* are gone
Released ==
    /\ machine.containers = {}
    /\ \A d \in machine.dirs : d.dir # "generated"

C27_BundleImmutable ==
    [][(env # NoEnv /\ env.certData # NoCertData) => env'.certData = env.certData]_vars

\* C31: Query[T] on an expression whose result is absent (it gives nothing,
\* or null) returns the zero value of T and no error, for every T.
C31_AbsentIsZero ==
    (obj.stage = "query" /\ obj.result.done /\ obj.run.kind \in {"no_output", "null"})
        => (obj.result.value = Zero /\ obj.result.err = NilErr)

\* Query[bool] was run with an expression that gives null
C31_Witness ==
    /\ obj.stage = "query" /\ obj.result.done
    /\ obj.type = "bool"
    /\ obj.run.kind = "null"
    /\ obj.result.value = Zero

\* the expression gave a value, and it is not of the type asked for
Mismatch(type, run) ==
    /\ run.kind \in {"value", "array", "map"}
    /\ type # "any"
    /\ DynType(run) # type

\* C32: Query[T] on an expression whose result is present and not a T
\* returns an error that names T and the type of the result, and the zero
\* value, never the result taken for a T.
C32_MismatchIsError ==
    (obj.stage = "query" /\ obj.result.done /\ Mismatch(obj.type, obj.run))
        => /\ obj.result.err # NilErr
           /\ obj.result.err.kind = "jq"
           /\ obj.result.err.what = "expected type"
           /\ obj.result.err.expected = obj.type
           /\ obj.result.err.actual = DynType(obj.run)
           /\ obj.result.value = Zero

\* Query[string] was run with an expression that gives a bool
C32_Witness ==
    /\ obj.stage = "query" /\ obj.result.done
    /\ obj.type = "string"
    /\ obj.run = [kind |-> "value", type |-> "bool"]
    /\ obj.result.err = TypeErr("expected type", "string", "bool", "")

\* C33: QuerySlice[T] and QueryMap[K,V] assert every element and value and
\* stop at the first that fails: with an element of another type in the
\* array the call returns a nil slice and an error naming the index of the
\* first such element; with a key or value of another type in the map it
\* returns a nil map and an error naming the first such key in the order of
\* the iteration.
C33_FirstOffender ==
    /\ (obj.stage = "queryslice" /\ obj.result.done /\ obj.run.kind = "array"
          /\ \E i \in DOMAIN obj.run.items : ~Asserts(obj.run.items[i], obj.type))
         => /\ obj.result.value = Zero
            /\ obj.result.err # NilErr
            /\ obj.result.err.what = "expected type at index"
            /\ obj.result.err.at + 1 \in DOMAIN obj.run.items
            /\ ~Asserts(obj.run.items[obj.result.err.at + 1], obj.type)
            /\ \A j \in 1..obj.result.err.at : Asserts(obj.run.items[j], obj.type)
            /\ obj.result.err.actual = obj.run.items[obj.result.err.at + 1]
    /\ (obj.stage = "querymap" /\ obj.result.done /\ obj.run.kind = "map"
          /\ \E k \in Keys : \/ ~Asserts("string", obj.ktype)
                             \/ ~Asserts(Entries(obj.run.value)[k], obj.vtype))
         => /\ obj.result.value = Zero
            /\ obj.result.err # NilErr
            /\ \E n \in DOMAIN obj.order :
                  /\ obj.result.err.at = obj.order[n]
                  /\ \/ ~Asserts("string", obj.ktype)
                     \/ ~Asserts(Entries(obj.run.value)[obj.order[n]], obj.vtype)
                  /\ \A j \in 1..(n - 1) :
                        /\ Asserts("string", obj.ktype)
                        /\ Asserts(Entries(obj.run.value)[obj.order[j]], obj.vtype)

\* QuerySlice[string] was run on an array whose second element is a bool
C33_Witness ==
    /\ obj.stage = "queryslice" /\ obj.result.done
    /\ obj.type = "string"
    /\ obj.run = [kind |-> "array", items |-> <<"string", "bool">>]
    /\ obj.result.err = TypeErr("expected type at index", "string", "bool", 1)
    /\ obj.result.value = Zero

\* C34: Client.Call returns an error and no response whenever the server's
\* answer has a status below 500 and a body that is not an AdmissionReview
\* JSON document; the probe that made the call does not count the endpoint
\* healthy.
C34_InvalidBodyIsError ==
    (wait.kind = "webhook" /\ call.resp.kind = "http" /\ call.resp.status < 500
       /\ ~call.resp.json)
        => /\ Call(call.resp).review = "nil"
           /\ Call(call.resp).err = CallErr("failed to unmarshal AdmissionReview response")
           /\ wait.idx \notin hist.healthy

\* a probe was answered 200 with a body that is not JSON
C34_Witness ==
    /\ wait.kind = "webhook"
    /\ call.resp.kind = "http"
    /\ call.resp.status = 200
    /\ ~call.resp.json
    /\ wait.pc = "select"

\* the configuration at index k of the run's configurations has been applied
\* and, if it is to be checked and has endpoints, found ready right after
HandledIn(l, k) ==
    LET wh == WebhookConfigs(env.manifests)[k] IN
    \E j \in DOMAIN l :
       /\ l[j].op = "apply" /\ l[j].ok /\ l[j].name = wh.name
       /\ (CheckReadiness(env.options) /\ Len(wh.urls) > 0) =>
             /\ j < Len(l)
             /\ l[j + 1].op = "probe" /\ l[j + 1].ok /\ l[j + 1].name = wh.name

\* C35: within a run of InstallWebhooks, the CRDs are not looked at (filter,
\* get, update of a conversion) until every webhook configuration has been
\* applied and, with the readiness check enabled, found ready; and the
\* configurations are applied one at a time in their order, each only when
\* the ones before it have been handled.
C35_WebhooksBeforeCRDs ==
    [][(env # NoEnv /\ InInstallWebhooks /\ Len(log') = Len(log) + 1) =>
          LET new == log'[Len(log')]
              cfgs == WebhookConfigs(env.manifests)
          IN /\ new.op \in {"filter", "get", "update"} =>
                   \A k \in DOMAIN cfgs : HandledIn(log, k)
             /\ new.op = "apply" =>
                   \E k \in DOMAIN cfgs :
                      /\ new.name = cfgs[k].name
                      /\ \A h \in 1..(k - 1) : HandledIn(log, h)
                      /\ \A j \in DOMAIN log : log[j].name # new.name]_vars

\* a run that applied two configurations, found both ready, and then
\* updated the conversion of a CRD
C35_Witness ==
    /\ env # NoEnv
    /\ env.iw = "nil"
    /\ CheckReadiness(env.options)
    /\ Len(WebhookConfigs(env.manifests)) = 2
    /\ Len(log) >= 6
    /\ log[1].op = "apply" /\ log[2].op = "probe"
    /\ log[3].op = "apply" /\ log[4].op = "probe"
    /\ log[5].op = "filter"
    /\ log[6].op = "update" /\ log[6].ok

\* C36: patching a webhook configuration changes the client configuration
\* of its entries and nothing else: as many entries in the same order, every
\* entry with its other fields as before, and the configuration's own fields
\* (kind, name) as before.
C36_PatchFrame ==
    [][(IsWebhookObj /\ obj'.patches = obj.patches + 1) =>
          /\ [obj' EXCEPT !.webhooks = obj.webhooks, !.prev = obj.prev,
                          !.patches = obj.patches] = obj
          /\ Len(obj'.webhooks) = Len(obj.webhooks)
          /\ \A i \in DOMAIN obj.webhooks :
                [obj'.webhooks[i] EXCEPT !.ClientConfig = obj.webhooks[i].ClientConfig]
                    = obj.webhooks[i]]_vars

\* a mutating configuration of two entries with different names has been
\* patched, and the client configuration of each has changed
C36_Witness ==
    /\ IsWebhookObj /\ obj.kind = "mutating" /\ obj.patches = 1
    /\ Len(obj.webhooks) = 2
    /\ obj.webhooks[1].Name = "other.example.com"
    /\ obj.webhooks[2].Name = "sample.example.com"
    /\ \A i \in 1..2 : obj.webhooks[i].ClientConfig # obj.prev[i].ClientConfig

\* C37: in the wait for a CRD, a read that finds nothing is "not yet": the
\* poll goes on, and ends without the CRD only on its deadline or on
\* cancellation; a read that fails otherwise ends the wait at once with that
\* error; and the wait goes on to the next CRD, or returns success, only
\* after a read that showed the CRD Established.
C37_NotFoundIsNotYet ==
    [][wait.kind = "crd" =>
          /\ (wait.pc = "inflight" /\ call'.resp.kind = "notfound")
                => (wait'.pc = "select" /\ wait'.err = Pending)
          /\ (wait.pc = "inflight" /\ call'.resp.kind = "error")
                => /\ wait'.pc = "done"
                   /\ wait'.err = NotReadyErr(wait.targets[wait.idx], "get_failed")
          /\ (wait.pc = "select" /\ wait'.pc = "done")
                => /\ wait'.err.kind = "not_ready"
                   /\ wait'.err.cause \in {"deadline", "canceled"}
                   /\ wait'.err.cause = "deadline"
                         => now - poll.start >= wait.opts.ReadyTimeout
          /\ (wait'.kind = "crd" /\ wait'.idx > wait.idx)
                => /\ call'.resp.kind = "found" /\ call'.resp.established
                   /\ wait.idx \in hist'.healthy]_vars

\* a CRD was read again after a read that did not find it, and was not
\* found again
C37_Witness ==
    /\ wait.kind = "crd"
    /\ wait.pc = "select"
    /\ call.resp.kind = "notfound"
    /\ poll.attempts >= 2


\* the time a call of WaitForEndpoints may take: one ready timeout per URL,
\* and one call timeout
WaitBudget == Len(wait.targets) * wait.opts.ReadyTimeout + wait.opts.CallTimeout

\* a probe of the endpoint being polled starts, and it is not the first one
\* of its poll (call.start is when the probe before it began)
ProbesAgain ==
    /\ wait.kind = "webhook"
    /\ wait.pc = "cond"
    /\ wait'.pc = "inflight"
    /\ poll.attempts >= 1

\* C38: WaitForEndpoints always terminates, whatever its endpoints do; from
\* its start to its return no more time passes than the number of URLs times
\* the ready timeout plus one call timeout; and a probe of an endpoint never
\* starts less than one poll interval after the probe of that endpoint
\* before it started.
C38_TerminatesBounded ==
    /\ <>(wait.kind = "webhook" => wait.pc = "done")
    /\ [](wait.kind = "webhook" => now - hist.waitStart <= WaitBudget)
    /\ [][ProbesAgain => now - call.start >= wait.opts.PollInterval]_vars

\* (the parts of C38 taken one at a time)
C38_Terminates == <>(wait.kind = "webhook" => wait.pc = "done")

C38_WithinBudget == wait.kind = "webhook" => now - hist.waitStart <= WaitBudget

C38_ProbesSpaced ==
    [][ProbesAgain => now - call.start >= wait.opts.PollInterval]_vars


\* C39: each registered teardown task is executed at most once over the
\* lifetime of an environment, even when Stop is called more than once.
C39_TeardownAtMostOnce ==
    env # NoEnv => \A i \in DOMAIN env.stop.execs : env.stop.execs[i] <= 1


\* C40: InstallWebhooks on an environment whose Start has not completed the
\* setup of its certificate and clients returns an error: it does not crash
\* and writes nothing to a cluster; and whenever InstallWebhooks writes to
\* the cluster, the environment holds the data of a certificate that was
\* issued, whose CA bundle it patches with.
C40_InstallNeedsCertificate ==
    [][env # NoEnv =>
          /\ (env.pc = "installWebhooks" /\ (env.certData = NoCertData \/ ~env.cli))
                => /\ env'.iw = "error"
                   /\ env'.result = "error"
                   /\ cluster' = cluster
                   /\ log' = log
          /\ (env.iw = "running" /\ Len(log') > Len(log))
                => /\ env.certData # NoCertData
                   /\ env.certData \in 1..machine.issued]_vars

====
